---- MODULE Spec2Model ----
(***************************************************************************)
(* A model of open-claude-router's translation core:                       *)
(*   - the streaming translator  stream_openai_to_anthropic (stream.py),   *)
(*   - the request translator    anthropic_to_openai and its tool-pairing  *)
(*     validator _validate_tool_calls (transform.py),                      *)
(*   - the model registry, its startup fetch and the resolver (models.py,  *)
(*     main.py lifespan),                                                  *)
(*   - the response translator openai_to_anthropic (transform.py) and the  *)
(*     /v1/messages handler (main.py).                                     *)
(* Each part has its own specification (SpecStream, SpecRequest,           *)
(* SpecSampling, SpecModels, SpecServer) over the shared variables; the    *)
(* variables a specification does not use stay at their initial value.     *)
(***************************************************************************)
EXTENDS Integers, Sequences, FiniteSets, TLC

VARIABLES
    pc,        \* stream: position of the generator ("start", "loop", "done", "raised")
    frame,     \* stream: the local variables of stream_openai_to_anthropic
    events,    \* stream: the SSE events yielded so far, in order
    nlines,    \* stream: number of upstream lines consumed
    lastOpen,  \* stream: the block kind open when the upstream ended ("" before that)
    body,      \* request: the messages of the Anthropic request body
    options,   \* request: the other fields of the Anthropic request body
    result,    \* request: the translated OpenAI request (messages), once computed
    rpc,       \* request: "idle" before the call, "done" after it
    tokens,    \* request: what count_tokens(body) returned, once called
    cache,     \* models: the registry globals (_cached_models, _claude_aliases)
    override,  \* models: config.model_override
    asked,     \* models: the model name last resolved
    resolved,  \* models: what the resolver returned for it, and for its own result
    phase,     \* models: the application's life ("starting", "serving", "failed")
    fetches,   \* models: number of calls of fetch_models so far
    hpc,       \* server: position of the /v1/messages handler
    creds,     \* server: the credentials configured and sent with the request
    upstream,  \* server: the upstream response to the chat/completions call
    client,    \* server: what the client has received
    calls,     \* server: number of upstream chat/completions calls issued
    streams,   \* concurrent: the requests in flight, each with its generator's locals
    validation, \* validator: the list _validate_tool_calls was given, its validated list, its index
    fed        \* stream: the upstream lines read so far, in order (kept where a property needs them)

vars == <<pc, frame, events, nlines, lastOpen, body, options, result, rpc, tokens,
          cache, override, asked, resolved, phase, fetches,
          hpc, creds, upstream, client, calls, streams, validation, fed>>

streamVars  == <<pc, frame, events, nlines, lastOpen>>
requestVars == <<body, options, result, rpc, tokens>>
modelVars   == <<cache, override, asked, resolved, phase, fetches>>
serverVars  == <<hpc, creds, upstream, client, calls>>

\* Python's None, for string-valued fields.
None == "<None>"

\* Python truthiness of an optional string: None and '' are falsy.
Truthy(v) == v # None /\ v # ""

\* Text that the code inspects is a sequence of one-character strings, so that
\* lower, join, strip and `in` are computed.  NoneText stands for None where
\* text is expected.
NoneText == <<None>>

TruthyText(x) == x # NoneText /\ x # <<>>

\* What a call of count_tokens gave: the number it returned, or the TypeError
\* it raised; Uncounted before the call.
Returned(n) == [raised |-> FALSE, value |-> n]

TypeError == [raised |-> TRUE, value |-> 0]

Uncounted == [raised |-> FALSE, value |-> -1]

(***************************************************************************)
(*                     PART 1: the streaming translator                    *)
(***************************************************************************)

\* Number of upstream lines one stream is fed.
MaxLines == 3

\* ---- upstream input --------------------------------------------------

\* usage objects: completion_tokens is -1 when the key is missing; other
\* says whether the object has other keys (prompt_tokens).  A chunk without
\* a usage field, or with usage null, carries NoUsage; so does a chunk with
\* usage {} where nothing tells the two apart.
NoUsage == [completion_tokens |-> -1, other |-> FALSE]

\* The usage object {} of a chunk, where a property tells a chunk that has a
\* usage object from one that has none.
EmptyUsage == [completion_tokens |-> -1, other |-> FALSE, empty |-> TRUE]

UsageTruthy(u) == u.completion_tokens # -1 \/ u.other

\* One entry of delta.tool_calls: id and function.arguments, None when missing.
ToolEntry(i, a) == [id |-> i, name |-> "fn", arguments |-> a]

ToolEntries == {ToolEntry(i, a) : i \in {None, "", "t1", "t2"}, a \in {None, "", "{"}}

\* The entries that lists of two are drawn from.
PairEntries == {ToolEntry(i, a) : i \in {None, "t1", "t2"}, a \in {None, "{"}}

ToolCallLists == {<<e>> : e \in ToolEntries} \cup {<<e, f>> : e \in PairEntries, f \in PairEntries}

\* A delta object.  tool_calls is <<>> when the key is missing or the list is
\* empty; reasoning and content are None when missing.
Delta(tc, r, c) == [tool_calls |-> tc, reasoning |-> r, content |-> c]

EmptyDelta == Delta(<<>>, None, None)

Deltas ==
    {Delta(tc, None, None) : tc \in ToolCallLists}
    \cup {Delta(<<>>, r, None) : r \in {"", "r1", "r2"}}
    \cup {Delta(<<>>, None, c) : c \in {"", "c1", "c2"}}
    \cup {Delta(<<>>, "r1", "c1"),
          Delta(<<ToolEntry("t1", "{")>>, "r1", "c1"),
          Delta(<<ToolEntry("t1", "{")>>, None, "c1")}

\* A decoded JSON object. choices is <<>> when missing or empty; a choice
\* without delta, or with delta {}, carries EmptyDelta.
Chunk(u, ch) == [usage |-> u, choices |-> ch]

Usages == {[completion_tokens |-> 7, other |-> TRUE],
           [completion_tokens |-> 0, other |-> FALSE],
           [completion_tokens |-> -1, other |-> TRUE]}

Chunks ==
    {Chunk(NoUsage, <<[delta |-> d]>>) : d \in Deltas \cup {EmptyDelta}}
    \cup {Chunk(u, <<>>) : u \in Usages \cup {NoUsage}}
    \cup {Chunk(u, <<[delta |-> Delta(<<>>, None, "c1")]>>) : u \in Usages}

\* An upstream line, by what line[6:].strip() and json.loads make of it:
\*   "blank"    the empty line
\*   "nodata"   a line not starting with 'data: ' (': keepalive', 'event: x')
\*   "done"     'data: [DONE]'
\*   "badjson"  'data: ' followed by text json.loads rejects
\*   "scalar"   'data: ' followed by JSON that is no object ('5', 'null', '[]')
\*   "object"   'data: ' followed by a JSON object, held in chunk
Line(k, c) == [kind |-> k, chunk |-> c]

Lines ==
    {Line(k, Chunk(NoUsage, <<>>)) : k \in {"blank", "nodata", "done", "badjson", "scalar"}}
    \cup {Line("object", c) : c \in Chunks}

\* ---- events ------------------------------------------------------------

\* _sse_event: the event type and the fields of its data the model keeps.
\*   index        data.index (-1 when the event has none)
\*   block        content_block.type of a start, delta.type of a delta
\*   id           content_block.id of a tool_use start
\*   text         the fragment a delta carries
\*   stop_reason  of message_delta
\*   output_tokens of message_delta (-1 when the event has none)
_sse_event(t, i, b, id, x, sr, ot) ==
    [type |-> t, index |-> i, block |-> b, id |-> id, text |-> x,
     stop_reason |-> sr, output_tokens |-> ot]

MessageStart == _sse_event("message_start", -1, None, None, None, None, -1)

MessageStop == _sse_event("message_stop", -1, None, None, None, None, -1)

MessageDelta(sr, ot) == _sse_event("message_delta", -1, None, None, None, sr, ot)

BlockStart(i, b, id) == _sse_event("content_block_start", i, b, id, None, None, -1)

BlockDelta(i, b, x) == _sse_event("content_block_delta", i, b, None, x, None, -1)

\* close_current_block as it would be if the index were read after the
\* increment that follows a close.
close_current_block_next_index(f) ==
    _sse_event("content_block_stop", f.content_block_index + 1, None, None, None, None, -1)

\* close_current_block: content_block_stop at the current index.
close_current_block(f) ==
    _sse_event("content_block_stop", f.content_block_index, None, None, None, None, -1)

\* ---- reading an emitted event sequence -------------------------------

IsStart(e) == e.type = "content_block_start"

IsStop(e) == e.type = "content_block_stop"

IsDelta(e) == e.type = "content_block_delta"

\* Positions of the events of type t in evs.
Positions(evs, t) == {p \in 1..Len(evs) : evs[p].type = t}

\* Blocks started minus blocks stopped within the first k events.
OpenCount(evs, k) ==
    Cardinality({p \in 1..k : IsStart(evs[p])}) - Cardinality({p \in 1..k : IsStop(evs[p])})

\* Position of the last content_block_start within the first k events (0 if none).
LastStart(evs, k) ==
    LET S == {p \in 1..k : IsStart(evs[p])}
    IN  IF S = {} THEN 0 ELSE CHOOSE p \in S : \A q \in S : q <= p

\* The kind of the block a client sees open after evs ("none" if no block is).
OpenKind(evs) ==
    IF OpenCount(evs, Len(evs)) > 0 THEN evs[LastStart(evs, Len(evs))].block ELSE "none"

\* The delta type each block kind takes.
DeltaTypeOf(kind) ==
    CASE kind = "text" -> "text_delta"
      [] kind = "thinking" -> "thinking_delta"
      [] kind = "tool_use" -> "input_json_delta"
      [] OTHER -> None

\* ---- the generator -------------------------------------------------------

\* The locals as initialised at stream.py:44-50; out collects what one
\* loop iteration yields.
InitFrame ==
    [content_block_index |-> 0,
     has_started_text_block |-> FALSE,
     has_started_thinking_block |-> FALSE,
     is_tool_use |-> FALSE,
     current_tool_call_id |-> None,
     tool_call_json |-> [i \in {} |-> ""],
     usage |-> NoUsage,
     out |-> <<>>]

Yield(f, e) == [f EXCEPT !.out = Append(@, e)]

AnyOpen(f) == f.is_tool_use \/ f.has_started_text_block \/ f.has_started_thinking_block

\* ToolCallStep without the close of the block that is open when a new
\* tool call arrives.
ToolCallStepNoClose(f, tool_call) ==
    LET tool_call_id == tool_call.id
        f1 == IF Truthy(tool_call_id) /\ tool_call_id # f.current_tool_call_id
              THEN LET g1 == [f EXCEPT !.is_tool_use = TRUE,
                                       !.has_started_text_block = FALSE,
                                       !.has_started_thinking_block = FALSE,
                                       !.current_tool_call_id = tool_call_id,
                                       !.content_block_index = @ + 1,
                                       !.tool_call_json = (tool_call_id :> "") @@ @]
                   IN  Yield(g1, BlockStart(g1.content_block_index, "tool_use", tool_call_id))
              ELSE f
        func_args == tool_call.arguments
    IN  IF Truthy(func_args) /\ f1.current_tool_call_id # None
        THEN Yield([f1 EXCEPT !.tool_call_json[f1.current_tool_call_id] = @ \o func_args],
                   BlockDelta(f1.content_block_index, "input_json_delta", func_args))
        ELSE f1

\* ToolCallStep forwarding an arguments fragment whether or not a tool call
\* is current (`if func_args:` in place of stream.py:110).
ToolCallStepArgsAlways(f, tool_call) ==
    LET tool_call_id == tool_call.id
        f1 == IF Truthy(tool_call_id) /\ tool_call_id # f.current_tool_call_id
              THEN LET g  == IF AnyOpen(f) THEN Yield(f, close_current_block(f)) ELSE f
                       g1 == [g EXCEPT !.is_tool_use = TRUE,
                                       !.has_started_text_block = FALSE,
                                       !.has_started_thinking_block = FALSE,
                                       !.current_tool_call_id = tool_call_id,
                                       !.content_block_index = @ + 1,
                                       !.tool_call_json = (tool_call_id :> "") @@ @]
                   IN  Yield(g1, BlockStart(g1.content_block_index, "tool_use", tool_call_id))
              ELSE f
        func_args == tool_call.arguments
    IN  IF Truthy(func_args)
        THEN Yield(f1, BlockDelta(f1.content_block_index, "input_json_delta", func_args))
        ELSE f1

\* ToolCallStep opening a block for every entry that has an id, also the id
\* of the tool call that is current.
ToolCallStepEveryId(f, tool_call) ==
    LET tool_call_id == tool_call.id
        f1 == IF Truthy(tool_call_id)
              THEN LET g  == IF AnyOpen(f) THEN Yield(f, close_current_block(f)) ELSE f
                       g1 == [g EXCEPT !.is_tool_use = TRUE,
                                       !.has_started_text_block = FALSE,
                                       !.has_started_thinking_block = FALSE,
                                       !.current_tool_call_id = tool_call_id,
                                       !.content_block_index = @ + 1,
                                       !.tool_call_json = (tool_call_id :> "") @@ @]
                   IN  Yield(g1, BlockStart(g1.content_block_index, "tool_use", tool_call_id))
              ELSE f
        func_args == tool_call.arguments
    IN  IF Truthy(func_args) /\ f1.current_tool_call_id # None
        THEN Yield([f1 EXCEPT !.tool_call_json[f1.current_tool_call_id] = @ \o func_args],
                   BlockDelta(f1.content_block_index, "input_json_delta", func_args))
        ELSE f1

\* One entry of delta.tool_calls (stream.py:85-119).
ToolCallStep(f, tool_call) ==
    LET tool_call_id == tool_call.id
        f1 == IF Truthy(tool_call_id) /\ tool_call_id # f.current_tool_call_id
              THEN LET g  == IF AnyOpen(f) THEN Yield(f, close_current_block(f)) ELSE f
                       g1 == [g EXCEPT !.is_tool_use = TRUE,
                                       !.has_started_text_block = FALSE,
                                       !.has_started_thinking_block = FALSE,
                                       !.current_tool_call_id = tool_call_id,
                                       !.content_block_index = @ + 1,
                                       !.tool_call_json = (tool_call_id :> "") @@ @]
                   IN  Yield(g1, BlockStart(g1.content_block_index, "tool_use", tool_call_id))
              ELSE f
        func_args == tool_call.arguments
    IN  IF Truthy(func_args) /\ f1.current_tool_call_id # None
        THEN Yield([f1 EXCEPT !.tool_call_json[f1.current_tool_call_id] = @ \o func_args],
                   BlockDelta(f1.content_block_index, "input_json_delta", func_args))
        ELSE f1

\* for tool_call in delta['tool_calls'] (stream.py:84).
RECURSIVE ToolCallsBranch(_, _)
ToolCallsBranch(f, tcs) ==
    IF tcs = <<>> THEN f
    ELSE ToolCallsBranch(ToolCallStep(f, Head(tcs)), Tail(tcs))

\* The reasoning branch, were the index left as it is when the open block is
\* closed.
ReasoningBranchNoIncrement(f, delta) ==
    LET f1 == IF f.is_tool_use \/ f.has_started_text_block
              THEN [Yield(f, close_current_block(f)) EXCEPT
                        !.is_tool_use = FALSE,
                        !.has_started_text_block = FALSE,
                        !.current_tool_call_id = None]
              ELSE f
        f2 == IF ~f1.has_started_thinking_block
              THEN [Yield(f1, BlockStart(f1.content_block_index, "thinking", None)) EXCEPT
                        !.has_started_thinking_block = TRUE]
              ELSE f1
    IN  Yield(f2, BlockDelta(f2.content_block_index, "thinking_delta", delta.reasoning))

\* The reasoning branch, were its delta yielded twice.
ReasoningBranchTwice(f, delta) ==
    LET f1 == IF f.is_tool_use \/ f.has_started_text_block
              THEN [Yield(f, close_current_block(f)) EXCEPT
                        !.is_tool_use = FALSE,
                        !.has_started_text_block = FALSE,
                        !.current_tool_call_id = None,
                        !.content_block_index = @ + 1]
              ELSE f
        f2 == IF ~f1.has_started_thinking_block
              THEN [Yield(f1, BlockStart(f1.content_block_index, "thinking", None)) EXCEPT
                        !.has_started_thinking_block = TRUE]
              ELSE f1
        d == BlockDelta(f2.content_block_index, "thinking_delta", delta.reasoning)
    IN  Yield(Yield(f2, d), d)

\* elif delta.get('reasoning') (stream.py:121-148).
ReasoningBranch(f, delta) ==
    LET f1 == IF f.is_tool_use \/ f.has_started_text_block
              THEN [Yield(f, close_current_block(f)) EXCEPT
                        !.is_tool_use = FALSE,
                        !.has_started_text_block = FALSE,
                        !.current_tool_call_id = None,
                        !.content_block_index = @ + 1]
              ELSE f
        f2 == IF ~f1.has_started_thinking_block
              THEN [Yield(f1, BlockStart(f1.content_block_index, "thinking", None)) EXCEPT
                        !.has_started_thinking_block = TRUE]
              ELSE f1
    IN  Yield(f2, BlockDelta(f2.content_block_index, "thinking_delta", delta.reasoning))

\* The content branch, were the open block left open when the text block
\* starts (no content_block_stop, no increment).
ContentBranchNoStop(f, delta) ==
    LET f1 == [f EXCEPT !.is_tool_use = FALSE,
                        !.has_started_thinking_block = FALSE,
                        !.current_tool_call_id = None]
        f2 == IF ~f1.has_started_text_block
              THEN [Yield(f1, BlockStart(f1.content_block_index, "text", None)) EXCEPT
                        !.has_started_text_block = TRUE]
              ELSE f1
    IN  Yield(f2, BlockDelta(f2.content_block_index, "text_delta", delta.content))

\* elif delta.get('content') (stream.py:150-173).
ContentBranch(f, delta) ==
    LET f1 == IF f.is_tool_use \/ f.has_started_thinking_block
              THEN [Yield(f, close_current_block(f)) EXCEPT
                        !.is_tool_use = FALSE,
                        !.has_started_thinking_block = FALSE,
                        !.current_tool_call_id = None,
                        !.content_block_index = @ + 1]
              ELSE f
        f2 == IF ~f1.has_started_text_block
              THEN [Yield(f1, BlockStart(f1.content_block_index, "text", None)) EXCEPT
                        !.has_started_text_block = TRUE]
              ELSE f1
    IN  Yield(f2, BlockDelta(f2.content_block_index, "text_delta", delta.content))

\* The dispatch, were content tested before reasoning.
DispatchContentFirst(f, delta) ==
    IF delta.tool_calls # <<>> THEN ToolCallsBranch(f, delta.tool_calls)
    ELSE IF Truthy(delta.content) THEN ContentBranch(f, delta)
    ELSE IF Truthy(delta.reasoning) THEN ReasoningBranch(f, delta)
    ELSE f

\* The dispatch on one delta (stream.py:83, 121, 150).
Dispatch(f, delta) ==
    IF delta.tool_calls # <<>> THEN ToolCallsBranch(f, delta.tool_calls)
    ELSE IF Truthy(delta.reasoning) THEN ReasoningBranch(f, delta)
    ELSE IF Truthy(delta.content) THEN ContentBranch(f, delta)
    ELSE f

\* The loop body for a decoded JSON object (stream.py:72-173).
HandleChunk(f, parsed) ==
    LET f1 == IF UsageTruthy(parsed.usage) THEN [f EXCEPT !.usage = parsed.usage] ELSE f
    IN  IF parsed.choices = <<>> THEN f1
        ELSE LET delta == parsed.choices[1].delta
             IN  IF delta = EmptyDelta THEN f1 ELSE Dispatch(f1, delta)

\* Lines the loop skips (stream.py:60-70).
Skipped(line) == line.kind \in {"blank", "nodata", "done", "badjson"}

\* json.loads returned something without .get: parsed.get raises
\* AttributeError out of the generator (stream.py:72).
Raises(line) == line.kind = "scalar"

\* Before the generator is first resumed; the other parts are idle.
StreamInit ==
    /\ pc = "start"
    /\ frame = InitFrame
    /\ events = <<>>
    /\ nlines = 0
    /\ lastOpen = ""
    /\ body = None /\ options = None /\ result = <<>> /\ rpc = "idle" /\ tokens = Uncounted
    /\ cache = None /\ override = None /\ asked = None /\ resolved = None
    /\ phase = None /\ fetches = 0
    /\ hpc = None /\ creds = None /\ upstream = None /\ client = None /\ calls = 0
    /\ streams = None
    /\ validation = None
    /\ fed = None

\* First resumption: the message_start preamble (stream.py:28-50).
Start ==
    /\ pc = "start"
    /\ pc' = "loop"
    /\ events' = Append(events, MessageStart)
    /\ frame' = InitFrame
    /\ UNCHANGED <<nlines, lastOpen>>

\* One iteration of `async for line in response.aiter_lines()`.
NextLine ==
    /\ pc = "loop"
    /\ nlines < MaxLines
    /\ \E line \in Lines :
         /\ nlines' = nlines + 1
         /\ IF Skipped(line)
            THEN UNCHANGED <<pc, frame, events>>
            ELSE IF Raises(line)
            THEN pc' = "raised" /\ UNCHANGED <<frame, events>>
            ELSE LET f == HandleChunk([frame EXCEPT !.out = <<>>], line.chunk)
                 IN  /\ events' = events \o f.out
                     /\ frame' = [f EXCEPT !.out = <<>>]
                     /\ pc' = pc
    /\ UNCHANGED lastOpen

\* stop_reason of message_delta (stream.py:181), as a wrong version would
\* compute it: "tool_use" once any tool call was seen in the stream.
StopReasonAnyTool(f) ==
    IF DOMAIN f.tool_call_json # {} THEN "tool_use" ELSE "end_turn"

\* stop_reason of message_delta (stream.py:181).
StopReason(f) == IF f.is_tool_use THEN "tool_use" ELSE "end_turn"

\* usage.get('completion_tokens', 0) (stream.py:185).
OutputTokens(f) ==
    IF f.usage.completion_tokens = -1 THEN 0 ELSE f.usage.completion_tokens

\* The upstream closed: the epilogue (stream.py:175-189).
EndOfStream ==
    /\ pc = "loop"
    /\ pc' = "done"
    /\ lastOpen' = OpenKind(events)
    /\ events' = events
         \o (IF AnyOpen(frame) THEN <<close_current_block(frame)>> ELSE <<>>)
         \o <<MessageDelta(StopReason(frame), OutputTokens(frame)), MessageStop>>
    /\ UNCHANGED <<frame, nlines>>

StreamNext ==
    \/ Start /\ UNCHANGED <<requestVars, modelVars, serverVars, streams, validation, fed>>
    \/ NextLine /\ UNCHANGED <<requestVars, modelVars, serverVars, streams, validation, fed>>
    \/ EndOfStream /\ UNCHANGED <<requestVars, modelVars, serverVars, streams, validation, fed>>

SpecStream == StreamInit /\ [][StreamNext]_vars

\* ---- properties of the streaming translator ------------------------------

Finished == pc \in {"done", "raised"}

\* C1: when the generator has finished, whatever lines it was fed, the
\* emitted sequence holds exactly one message_start, which is its first
\* event, and exactly one message_stop, which is its last.
C1_OneStartOneStop ==
    Finished =>
        /\ Cardinality(Positions(events, "message_start")) = 1
        /\ Cardinality(Positions(events, "message_stop")) = 1
        /\ events[1].type = "message_start"
        /\ events[Len(events)].type = "message_stop"

\* C2: after every event of the emitted sequence, the number of blocks
\* started and not yet stopped is 0 or 1.
C2_AtMostOneOpen ==
    \A k \in 0..Len(events) : OpenCount(events, k) \in {0, 1}

\* A block is open after an earlier block was opened and closed.
C2_Witness ==
    /\ OpenCount(events, Len(events)) = 1
    /\ Positions(events, "content_block_stop") # {}

\* The indices of the content_block_start events, in emission order.
StartIndices ==
    LET S == SelectSeq(events, IsStart)
    IN  [k \in 1..Len(S) |-> S[k].index]

\* C3: the k-th block opened carries index k-1 (the first one 0), of
\* whatever kind the blocks are.
C3_KthBlockHasIndexKMinus1 ==
    \A k \in 1..Len(StartIndices) : StartIndices[k] = k - 1

\* C4: once the upstream has ended, every content_block_start is followed by
\* exactly one content_block_stop with its index, which comes before
\* message_delta, and no content_block_stop comes after message_delta.
C4_AllClosedBeforeMessageDelta ==
    pc = "done" =>
        \E md \in Positions(events, "message_delta") :
            /\ \A p \in Positions(events, "content_block_start") :
                   /\ Cardinality({q \in Positions(events, "content_block_stop") :
                                      q > p /\ events[q].index = events[p].index}) = 1
                   /\ \E q \in Positions(events, "content_block_stop") :
                          q > p /\ q < md /\ events[q].index = events[p].index
            /\ \A q \in Positions(events, "content_block_stop") : q < md

\* The upstream ended with a block open, after two earlier blocks.
C4_Witness ==
    /\ pc = "done"
    /\ lastOpen # "none"
    /\ Cardinality(Positions(events, "content_block_start")) = 3

\* C5: every content_block_delta comes while a block is open, carries that
\* block's index and has the delta type of that block's kind.
C5_DeltaInsideItsBlock ==
    \A p \in Positions(events, "content_block_delta") :
        /\ OpenCount(events, p) = 1
        /\ LET s == LastStart(events, p)
           IN  /\ s > 0
               /\ events[p].index = events[s].index
               /\ events[p].block = DeltaTypeOf(events[s].block)

\* Deltas of all three kinds were emitted, one by a tool-call entry without id.
C5_Witness ==
    /\ {events[p].block : p \in Positions(events, "content_block_delta")}
          = {"text_delta", "thinking_delta", "input_json_delta"}
    /\ \E p \in Positions(events, "content_block_delta") :
          events[p].block = "input_json_delta" /\ IsDelta(events[p - 1])

\* stop_reason of the message_delta emitted.
EmittedStopReason ==
    LET md == CHOOSE p \in Positions(events, "message_delta") : TRUE
    IN  events[md].stop_reason

\* C10: the stop_reason of message_delta is "tool_use" exactly when a
\* tool_use block was the open block when the upstream ended, and "end_turn"
\* otherwise.
C10_StopReason ==
    pc = "done" =>
        EmittedStopReason = (IF lastOpen = "tool_use" THEN "tool_use" ELSE "end_turn")

\* The upstream ended with a text or thinking block open after a tool_use block.
C10_Witness ==
    /\ pc = "done"
    /\ lastOpen \in {"text", "thinking"}
    /\ \E p \in Positions(events, "content_block_start") : events[p].block = "tool_use"
    /\ EmittedStopReason = "end_turn"

\* The upstream ended with a tool_use block open.
C10_WitnessToolUse ==
    pc = "done" /\ lastOpen = "tool_use" /\ EmittedStopReason = "tool_use"

(***************************************************************************)
(*              PART 2: the model registry and the resolver                *)
(***************************************************************************)

\* Number of models in the upstream catalogue.
MaxModels == 3

\* ---- strings -------------------------------------------------------------------

\* The characters used, in code-point order ('-' 45, '/' 47, digits, ':' 58,
\* upper case, lower case), for Python's string comparison.
CodePoints ==
    <<"-", "/", "0", "1", "2", "3", "4", "5", "6", "7", "8", "9", ":",
      "A", "B", "C", "D", "E", "F", "G", "H", "I", "J", "K", "L", "M",
      "N", "O", "P", "Q", "R", "S", "T", "U", "V", "W", "X", "Y", "Z",
      "a", "b", "c", "d", "e", "f", "g", "h", "i", "j", "k", "l", "m",
      "n", "o", "p", "q", "r", "s", "t", "u", "v", "w", "x", "y", "z">>

OrdTable ==
    [c \in {CodePoints[i] : i \in 1..Len(CodePoints)} |->
        CHOOSE i \in 1..Len(CodePoints) : CodePoints[i] = c]

\* ord(c), up to the offset of the first character used.
Ord(c) == OrdTable[c]

\* str.lower(), one character: upper case letters sit 26 places before their
\* lower case in CodePoints.
LowerChar(c) == IF Ord(c) \in 14..39 THEN CodePoints[Ord(c) + 26] ELSE c

\* str.lower()
Lower(x) == [i \in 1..Len(x) |-> LowerChar(x[i])]

\* `sub in x`
Contains(sub, x) ==
    \E i \in 1..(Len(x) - Len(sub) + 1) : SubSeq(x, i, i + Len(sub) - 1) = sub

\* x.startswith(pre)
StartsWith(x, pre) == Len(x) >= Len(pre) /\ SubSeq(x, 1, Len(pre)) = pre

\* x < y for Python strings
RECURSIVE StrLess(_, _)
StrLess(x, y) ==
    IF y = <<>> THEN FALSE
    ELSE IF x = <<>> THEN TRUE
    ELSE IF Head(x) # Head(y) THEN Ord(Head(x)) < Ord(Head(y))
    ELSE StrLess(Tail(x), Tail(y))

haiku == <<"h", "a", "i", "k", "u">>

sonnet == <<"s", "o", "n", "n", "e", "t">>

opus == <<"o", "p", "u", "s">>

\* models.py:8
CLAUDE_TIERS == <<haiku, sonnet, opus>>

AnthropicClaude == <<"a", "n", "t", "h", "r", "o", "p", "i", "c", "/", "c", "l", "a", "u", "d", "e">>

\* ---- the upstream catalogue -------------------------------------------------

\* An entry of the upstream list: supported_parameters is {} when the key is
\* missing or the list empty.
Model(i, c, sp) == [id |-> i, created |-> c, supported_parameters |-> sp]

Catalogue ==
    { Model(AnthropicClaude \o <<"-">> \o haiku \o <<"-", "4">>, 2, {"temperature", "max_tokens"}),
      Model(AnthropicClaude \o <<"-", "3", "-">> \o haiku, 2, {}),
      Model(AnthropicClaude \o <<"-">> \o opus \o <<"-">> \o haiku, 3, {"max_tokens"}),
      Model(AnthropicClaude \o <<"-">> \o opus \o <<"-", "4">>, 1, {"temperature", "top_p"}),
      Model(AnthropicClaude \o <<"-">> \o sonnet \o <<"-", "4", ":", "b", "e", "t", "a">>, 3, {}),
      Model(<<"x", "/">> \o sonnet, 3, {"max_tokens", "stop"}) }

ModelLists == UNION {[1..n -> Catalogue] : n \in 0..MaxModels}

\* The names requests ask for.
ModelNames ==
    { <<"c", "l", "a", "u", "d", "e", "-", "3", "-">> \o haiku,
      <<"C", "l", "a", "u", "d", "e", "-", "O", "P", "U", "S">>,
      opus \o <<"-">> \o haiku,
      <<"m", "y", "-">> \o sonnet,
      <<"g", "p", "t", "-", "4">>,
      <<"x", "/">> \o opus,
      <<>> }

\* The values of config.model_override: unset (None), MODEL_OVERRIDE set to
\* the empty string, a name that holds a tier.
Overrides == {NoneText, <<>>, <<"m", "y", "-">> \o haiku}

\* ---- models.py --------------------------------------------------------------------

\* _extract_claude_tier (models.py:15-22): <<>> stands for None.
RECURSIVE FirstTierIn(_, _)
FirstTierIn(x, tiers) ==
    IF tiers = <<>> THEN <<>>
    ELSE IF Contains(Head(tiers), x) THEN Head(tiers)
    ELSE FirstTierIn(x, Tail(tiers))

_extract_claude_tier(model_id) == FirstTierIn(Lower(model_id), CLAUDE_TIERS)

\* re.search(r':(free|beta|extended)', model_id)
Excluded(model_id) ==
    \/ Contains(<<":", "f", "r", "e", "e">>, model_id)
    \/ Contains(<<":", "b", "e", "t", "a">>, model_id)
    \/ Contains(<<":", "e", "x", "t", "e", "n", "d", "e", "d">>, model_id)

\* (created, id) tuples compare by created, then by id.
TupleLess(a, b) ==
    a.created < b.created \/ (a.created = b.created /\ StrLess(a.id, b.id))

\* tier_candidates[tier] (models.py:32-40), as a set: only its greatest
\* element is read.
TierCandidates(models_data, tier) ==
    {models_data[n] : n \in {m \in 1..Len(models_data) :
        /\ StartsWith(models_data[m].id, AnthropicClaude)
        /\ _extract_claude_tier(models_data[m].id) = tier
        /\ ~Excluded(models_data[m].id)}}

\* candidates[0], were the list sorted without reverse=True.
NewestWithoutReverse(candidates) ==
    CHOOSE c \in candidates : \A d \in candidates : ~TupleLess(d, c)

\* candidates.sort(reverse=True); candidates[0] (models.py:45-46)
Newest(candidates) == CHOOSE c \in candidates : \A d \in candidates : ~TupleLess(c, d)

\* _build_claude_aliases (models.py:25-48): a dict from tier to id.
_build_claude_aliases(models_data) ==
    LET present == {CLAUDE_TIERS[n] : n \in {m \in 1..3 :
                       TierCandidates(models_data, CLAUDE_TIERS[m]) # {}}}
    IN  [tier \in present |-> Newest(TierCandidates(models_data, tier)).id]

\* The entries of the list that advertise parameters.
WithParams(models_data) ==
    {n \in 1..Len(models_data) :
        models_data[n].id # <<>> /\ models_data[n].supported_parameters # {}}

\* _build_model_params (models.py:51-59): a dict from id to parameter set;
\* a later entry of the same id overwrites an earlier one.
_build_model_params(models_data) ==
    [model_id \in {models_data[n].id : n \in WithParams(models_data)} |->
        LET last == CHOOSE n \in WithParams(models_data) :
                       /\ models_data[n].id = model_id
                       /\ \A m \in WithParams(models_data) :
                             models_data[m].id = model_id => m <= n
        IN  models_data[last].supported_parameters]

\* None, or a value.
Nothing == [some |-> FALSE, val |-> <<>>]

Some(v) == [some |-> TRUE, val |-> v]

\* get_model_ids (models.py:91-96)
get_model_ids(c) ==
    IF ~c._cached_models.some THEN {}
    ELSE {c._cached_models.val[n].id : n \in 1..Len(c._cached_models.val)}

\* get_supported_params (models.py:99-106): None, or the set recorded.
get_supported_params(c, model_id) ==
    IF ~c._model_params.some THEN Nothing
    ELSE IF model_id \in DOMAIN c._model_params.val THEN Some(c._model_params.val[model_id])
    ELSE Nothing

\* get_claude_aliases (models.py:83-88)
get_claude_aliases(c) == IF c._claude_aliases.some THEN c._claude_aliases.val ELSE <<>>

\* The loop of map_model (models.py:121-123); <<>> when no tier returns.
RECURSIVE AliasScan(_, _, _)
AliasScan(model_lower, aliases, tiers) ==
    IF tiers = <<>> THEN <<>>
    ELSE IF Contains(Head(tiers), model_lower) /\ Head(tiers) \in DOMAIN aliases
    THEN aliases[Head(tiers)]
    ELSE AliasScan(model_lower, aliases, Tail(tiers))

\* map_model, were it to stop at the first tier found in the name, whether or
\* not the alias map holds it.
map_model_first_tier_only(c, anthropic_model) ==
    IF Contains(<<"/">>, anthropic_model) THEN anthropic_model
    ELSE LET tier == FirstTierIn(Lower(anthropic_model), CLAUDE_TIERS)
             aliases == get_claude_aliases(c)
         IN  IF tier # <<>> /\ tier \in DOMAIN aliases THEN aliases[tier]
             ELSE anthropic_model

\* map_model, were it to skip the test for '/' and read the tiers from the
\* last to the first.
map_model_no_slash_reversed(c, anthropic_model) ==
    LET hit == AliasScan(Lower(anthropic_model), get_claude_aliases(c), <<opus, sonnet, haiku>>)
    IN  IF hit # <<>> THEN hit ELSE anthropic_model

\* map_model (models.py:109-125), reading the registry c.
map_model(c, anthropic_model) ==
    IF Contains(<<"/">>, anthropic_model) THEN anthropic_model
    ELSE LET hit == AliasScan(Lower(anthropic_model), get_claude_aliases(c), CLAUDE_TIERS)
         IN  IF hit # <<>> THEN hit ELSE anthropic_model

\* `model_override or map_model(body.get('model', ''))` (transform.py:64)
Resolver(c, o, m) == IF TruthyText(o) THEN o ELSE map_model(c, m)

\* ---- the registry ---------------------------------------------------------------

\* The module globals (models.py:10-12) before any fetch.
EmptyRegistry ==
    [_cached_models |-> Nothing, _claude_aliases |-> Nothing, _model_params |-> Nothing]

Gpt5 == <<"o", "p", "e", "n", "a", "i", "/", "g", "p", "t", "-", "5">>

UnknownModel == <<"u", "n", "k", "n", "o", "w", "n", "/", "m", "o", "d", "e", "l">>

\* The registry after a startup fetch of two models, one of which supports
\* no temperature, top_p or top_k: the registry of the requests whose
\* translation and handling are followed.
ServingRegistry ==
    LET models_data ==
           <<Model(AnthropicClaude \o <<"-">> \o sonnet \o <<"-", "4">>, 2,
                   {"max_tokens", "temperature", "top_p", "top_k", "stop",
                    "tools", "tool_choice", "reasoning"}),
             Model(Gpt5, 1, {"max_tokens", "stop", "tools", "tool_choice", "reasoning"})>>
    IN  [_cached_models |-> Some(models_data),
         _claude_aliases |-> Some(_build_claude_aliases(models_data)),
         _model_params |-> Some(_build_model_params(models_data))]

\* The application starts: the registry is unpopulated and the process has
\* its configuration.
ModelsInit ==
    /\ cache = EmptyRegistry
    /\ override \in Overrides
    /\ asked = NoneText
    /\ resolved = [once |-> NoneText, twice |-> NoneText, aliases |-> <<>>]
    /\ phase = "starting"
    /\ fetches = 0
    /\ pc = "start" /\ frame = InitFrame /\ events = <<>> /\ nlines = 0 /\ lastOpen = ""
    /\ body = None /\ options = None /\ result = <<>> /\ rpc = "idle" /\ tokens = Uncounted
    /\ hpc = None /\ creds = None /\ upstream = None /\ client = None /\ calls = 0
    /\ streams = None
    /\ validation = None
    /\ fed = None

\* lifespan calls fetch_models (main.py:30), which runs to the end of its
\* `async with` block (models.py:66-69): the response is stored; leaving the
\* block suspends the coroutine.
FetchStore ==
    /\ phase = "starting"
    /\ fetches = 0
    /\ fetches' = fetches + 1
    /\ \E models_data \in ModelLists :
          cache' = [cache EXCEPT !._cached_models = Some(models_data)]
    /\ UNCHANGED <<override, asked, resolved, phase, streamVars, requestVars, serverVars, streams, validation, fed>>

\* The failure of the startup fetch, were lifespan to catch it and go on to
\* its yield.
FetchFailCaught ==
    /\ phase = "starting"
    /\ fetches = 0
    /\ fetches' = fetches + 1
    /\ phase' = "serving"
    /\ UNCHANGED <<cache, override, asked, resolved, streamVars, requestVars, serverVars, streams, validation, fed>>

\* The failure of the startup fetch, were the response stored before its
\* status is looked at (`_cached_models = response.json()` ahead of
\* raise_for_status): the body of the failed response stays in the registry.
FetchFailStored ==
    /\ phase = "starting"
    /\ fetches = 0
    /\ fetches' = fetches + 1
    /\ phase' = "failed"
    /\ \E m \in Catalogue : cache' = [cache EXCEPT !._cached_models = Some(<<m>>)]
    /\ UNCHANGED <<override, asked, resolved, streamVars, requestVars, serverVars, streams, validation, fed>>

\* lifespan calls fetch_models and the request fails or raise_for_status
\* raises (models.py:67-68): the exception leaves fetch_models and lifespan,
\* and the application does not start.
FetchFail ==
    /\ phase = "starting"
    /\ fetches = 0
    /\ fetches' = fetches + 1
    /\ phase' = "failed"
    /\ UNCHANGED <<cache, override, asked, resolved, streamVars, requestVars, serverVars, streams, validation, fed>>

\* fetch_models after the block (models.py:70-72); it returns to lifespan,
\* which reaches its yield without suspending (main.py:31-36): the
\* application serves.
FetchDerive ==
    /\ phase = "starting"
    /\ cache._cached_models.some
    /\ ~cache._claude_aliases.some
    /\ cache' = [cache EXCEPT
                    !._claude_aliases = Some(_build_claude_aliases(cache._cached_models.val)),
                    !._model_params = Some(_build_model_params(cache._cached_models.val))]
    /\ phase' = "serving"
    /\ UNCHANGED <<override, asked, resolved, fetches, streamVars, requestVars, serverVars, streams, validation, fed>>

\* A request is handled (main.py:100) and names a model: it is resolved, and
\* so is the result.  One resolution is followed per run; aliases records the
\* alias map the registry held at that moment.
Resolve ==
    /\ phase = "serving"
    /\ asked = NoneText
    /\ \E m \in ModelNames :
          /\ asked' = m
          /\ resolved' = [once |-> Resolver(cache, override, m),
                          twice |-> Resolver(cache, override, Resolver(cache, override, m)),
                          aliases |-> IF cache._claude_aliases.some
                                      THEN cache._claude_aliases.val ELSE <<>>]
    /\ UNCHANGED <<cache, override, phase, fetches, streamVars, requestVars, serverVars, streams, validation, fed>>

ModelsNext ==
    \/ FetchStore
    \/ FetchFail
    \/ FetchDerive
    \/ Resolve

SpecModels == ModelsInit /\ [][ModelsNext]_vars

\* ---- properties of the resolver ----------------------------------------------

\* The tiers that are a substring of the lowercased name and a key of the
\* alias map, by their place in the order haiku, sonnet, opus.
MatchingTiers(name, aliases) ==
    {n \in 1..3 : Contains(CLAUDE_TIERS[n], Lower(name)) /\ CLAUDE_TIERS[n] \in DOMAIN aliases}

\* The rules of model resolution, in order, on the alias map the registry
\* holds.
ResolutionRules(o, name, aliases) ==
    IF o # NoneText /\ o # <<>> THEN o
    ELSE IF "/" \in {name[i] : i \in 1..Len(name)} THEN name
    ELSE IF MatchingTiers(name, aliases) # {}
    THEN aliases[CLAUDE_TIERS[CHOOSE n \in MatchingTiers(name, aliases) :
                                 \A k \in MatchingTiers(name, aliases) : n <= k]]
    ELSE name

\* C8: resolution returns the override when one is set (a non-empty value);
\* otherwise the name itself when it holds '/'; otherwise the alias of the
\* first tier, in the order haiku, sonnet, opus, that is a substring of the
\* lowercased name and a key of the alias map; otherwise the name itself.
C8_ResolutionRules ==
    asked # NoneText => resolved.once = ResolutionRules(override, asked, resolved.aliases)

\* A name holding two tiers was resolved, with no override, to the alias of
\* the later tier because the alias map lacks the earlier one.
C8_Witness ==
    /\ asked = opus \o <<"-">> \o haiku
    /\ ~TruthyText(override)
    /\ DOMAIN resolved.aliases = {opus}
    /\ resolved.once = resolved.aliases[opus]

\* An override was returned for a name that has an alias.
C8_WitnessOverride ==
    /\ asked = opus \o <<"-">> \o haiku
    /\ haiku \in DOMAIN resolved.aliases
    /\ resolved.once = override

\* C9: resolving the result of a resolution gives that result again.
C9_Idempotent == asked # NoneText => resolved.twice = resolved.once

\* A shorthand name was resolved to an alias, which resolves to itself.
C9_Witness ==
    /\ asked # NoneText
    /\ ~TruthyText(override)
    /\ resolved.once # asked
    /\ Contains(opus, resolved.once) /\ Contains(haiku, resolved.once)
    /\ opus \in DOMAIN resolved.aliases
    /\ resolved.twice = resolved.once


\* ---- properties of the registry ----------------------------------------------

\* The ids the lookups are made for: those of the catalogue and one more.
LookupIds == {m.id : m \in Catalogue} \cup {Gpt5}

\* The entries of the cached list that have the id.
Listed(model_id) ==
    {n \in 1..Len(cache._cached_models.val) : cache._cached_models.val[n].id = model_id}

\* C14: after a fetch, get_supported_params returns, for every id, the
\* advertised set when the id is listed with parameters, the empty set when
\* it is listed and advertises none, and None only when the id is not in the
\* list.
C14_ThreeCases ==
    cache._model_params.some =>
        \A model_id \in LookupIds :
            LET found == get_supported_params(cache, model_id)
            IN  /\ Listed(model_id) = {} => ~found.some
                /\ Listed(model_id) # {} =>
                      /\ found.some
                      /\ \E n \in Listed(model_id) :
                            found.val = cache._cached_models.val[n].supported_parameters

\* After a fetch the lookup returned the advertised set of a listed model
\* and None for an id that is not listed.
C14_AdvertisedAndAbsent ==
    /\ cache._model_params.some
    /\ \E model_id \in LookupIds :
          /\ Listed(model_id) # {}
          /\ get_supported_params(cache, model_id) = Some({"max_tokens", "stop"})
    /\ ~get_supported_params(cache, Gpt5).some

\* The entries of the list that are candidates of the tier numbered k in the
\* order haiku, sonnet, opus: the id starts with 'anthropic/claude', the tier
\* is the first of the three found in the lowercased id, and the id does not
\* match ':(free|beta|extended)'.
Eligible(L, k) ==
    {n \in 1..Len(L) :
        /\ Len(L[n].id) >= 16
        /\ \A i \in 1..16 : L[n].id[i] = AnthropicClaude[i]
        /\ Contains(CLAUDE_TIERS[k], Lower(L[n].id))
        /\ \A j \in 1..(k - 1) : ~Contains(CLAUDE_TIERS[j], Lower(L[n].id))
        /\ \A suffix \in {<<":", "f", "r", "e", "e">>, <<":", "b", "e", "t", "a">>,
                          <<":", "e", "x", "t", "e", "n", "d", "e", "d">>} :
              ~Contains(suffix, L[n].id)}

\* C15: for every upstream list, the alias of each tier is the id with the
\* largest created timestamp, ties broken by the greater id in string order,
\* among that tier's candidates; a tier without candidates has no entry.
C15_NewestPerTier ==
    cache._claude_aliases.some =>
        LET L == cache._cached_models.val
            aliases == cache._claude_aliases.val
        IN  \A k \in 1..3 :
               IF Eligible(L, k) = {}
               THEN CLAUDE_TIERS[k] \notin DOMAIN aliases
               ELSE /\ CLAUDE_TIERS[k] \in DOMAIN aliases
                    /\ \E n \in Eligible(L, k) :
                          /\ aliases[CLAUDE_TIERS[k]] = L[n].id
                          /\ \A m \in Eligible(L, k) :
                                \/ L[m].created < L[n].created
                                \/ /\ L[m].created = L[n].created
                                   /\ ~StrLess(L[n].id, L[m].id)

\* Two haiku candidates with the same timestamp were fetched with a newer id
\* that names opus before haiku: the haiku alias is the newer one, and the
\* opus tier, with no candidate of its own, has no alias.
C15_Witness ==
    /\ cache._claude_aliases.some
    /\ Cardinality(Eligible(cache._cached_models.val, 1)) = 3
    /\ DOMAIN cache._claude_aliases.val = {haiku}
    /\ cache._claude_aliases.val[haiku] = AnthropicClaude \o <<"-">> \o opus \o <<"-">> \o haiku

\* A tie on the timestamp was decided by the greater id.
C15_WitnessTie ==
    /\ cache._claude_aliases.some
    /\ Cardinality(Eligible(cache._cached_models.val, 1)) = 2
    /\ haiku \in DOMAIN cache._claude_aliases.val
    /\ cache._claude_aliases.val[haiku] = AnthropicClaude \o <<"-">> \o haiku \o <<"-", "4">>

\* C17: at every point at which another task can run, the cached list, the
\* alias map and the parameter map are all unpopulated or all derived from
\* the same fetched list.
C17_AtomicSnapshot ==
    \/ cache = EmptyRegistry
    \/ /\ cache._cached_models.some
       /\ cache._claude_aliases = Some(_build_claude_aliases(cache._cached_models.val))
       /\ cache._model_params = Some(_build_model_params(cache._cached_models.val))

\* C18: no request is handled before the startup fetch has completed: the
\* fetch is called once, during startup; a request is handled only when the
\* application serves, which it does only with the registry populated by
\* that fetch; after a failed fetch it never serves.
C18_ServesOnlyAfterFetch ==
    /\ fetches <= 1
    /\ phase = "starting" => asked = NoneText
    /\ phase = "failed" => asked = NoneText /\ cache = EmptyRegistry
    /\ phase = "serving" =>
          /\ fetches = 1
          /\ cache._cached_models.some /\ cache._claude_aliases.some /\ cache._model_params.some
    /\ asked # NoneText => phase = "serving"

\* Once failed, the application stays failed.
C18_FailedForGood == [][phase = "failed" => phase' = "failed"]_vars

\* A request was handled after the one startup fetch.
C18_Witness ==
    /\ asked # NoneText
    /\ phase = "serving"
    /\ fetches = 1
    /\ Len(cache._cached_models.val) > 0

\* The startup fetch failed and nothing is served.
C18_WitnessFailed == phase = "failed" /\ fetches = 1 /\ asked = NoneText

(***************************************************************************)
(*        PART 3: the request translator and the tool-pairing validator    *)
(***************************************************************************)

\* Number of turns in the messages of one request.
MaxTurns == 3

\* ---- strings and JSON values ----------------------------------------------

Whitespace == {" ", "\n", "\t"}

RECURSIVE LStrip(_)
LStrip(x) == IF x # <<>> /\ Head(x) \in Whitespace THEN LStrip(Tail(x)) ELSE x

RECURSIVE RStrip(_)
RStrip(x) ==
    IF x # <<>> /\ x[Len(x)] \in Whitespace THEN RStrip(SubSeq(x, 1, Len(x) - 1)) ELSE x

\* str.strip()
Strip(x) == RStrip(LStrip(x))

\* '\n'.join(parts)
RECURSIVE JoinLines(_)
JoinLines(parts) ==
    IF parts = <<>> THEN <<>>
    ELSE IF Len(parts) = 1 THEN parts[1]
    ELSE parts[1] \o <<"\n">> \o JoinLines(Tail(parts))

\* A JSON value: a string, null, or an object with one string member.
JStr(x) == [t |-> "str", v |-> x, k |-> <<>>]

JNull == [t |-> "null", v |-> <<>>, k |-> <<>>]

JObj(key, x) == [t |-> "obj", v |-> x, k |-> key]

\* The empty object {}.
JEmpty == [t |-> "empty", v |-> <<>>, k |-> <<>>]

Quoted(x) == <<"\"">> \o x \o <<"\"">>

\* json.dumps
JsonDumps(j) ==
    CASE j.t = "str" -> Quoted(j.v)
      [] j.t = "null" -> <<"n", "u", "l", "l">>
      [] j.t = "empty" -> <<"{", "}">>
      [] j.t = "obj" -> <<"{">> \o Quoted(j.k) \o <<":", " ">> \o Quoted(j.v) \o <<"}">>

\* `x if isinstance(x, str) else json.dumps(x)` (transform.py:110, 136, 142)
StrOrDumps(j) == IF j.t = "str" THEN j.v ELSE JsonDumps(j)

\* ---- the Anthropic request --------------------------------------------------

\* Content parts.  A missing id or tool_use_id is None.
TextPart(j) ==
    [type |-> "text", text |-> j, id |-> None, input |-> JNull, content |-> JNull]

ToolUsePart(i) ==
    [type |-> "tool_use", text |-> JNull, id |-> i,
     input |-> JObj(<<"q">>, <<"x">>), content |-> JNull]

ToolResultPart(i, j) ==
    [type |-> "tool_result", text |-> JNull, id |-> i, input |-> JNull, content |-> j]

\* A turn: content is a string (kind "str", in text), a parts list (kind
\* "list", in parts) or something else (kind "other": null, a number).
StrTurn(r, x) == [role |-> r, kind |-> "str", text |-> x, parts |-> <<>>]

ListTurn(r, ps) == [role |-> r, kind |-> "list", text |-> <<>>, parts |-> ps]

OtherTurn(r) == [role |-> r, kind |-> "other", text |-> <<>>, parts |-> <<>>]

Hi == <<"h", "i">>

Sunny == JStr(<<"o", "k">>)

Turns ==
    { StrTurn("user", Hi), StrTurn("assistant", Hi), StrTurn("tool", Hi),
      OtherTurn("user"),
      ListTurn("assistant", <<ToolUsePart("A")>>),
      ListTurn("assistant", <<ToolUsePart("A"), ToolUsePart("B")>>),
      ListTurn("assistant", <<TextPart(JStr(Hi)), ToolUsePart("A")>>),
      ListTurn("assistant", <<TextPart(JStr(<<" ">>)), ToolUsePart("B")>>),
      ListTurn("assistant", <<TextPart(JStr(Hi)), TextPart(JObj(<<"k">>, <<"v">>))>>),
      ListTurn("assistant", <<ToolUsePart(None)>>),
      ListTurn("assistant", <<>>),
      ListTurn("user", <<ToolResultPart("A", Sunny)>>),
      ListTurn("user", <<ToolResultPart("B", JObj(<<"k">>, <<"v">>))>>),
      ListTurn("user", <<ToolResultPart("A", Sunny), ToolResultPart("B", Sunny)>>),
      ListTurn("user", <<ToolResultPart("A", Sunny), TextPart(JStr(Hi))>>),
      ListTurn("user", <<TextPart(JStr(Hi)), ToolResultPart("A", Sunny)>>),
      ListTurn("user", <<TextPart(JStr(<<" ">>)), ToolResultPart("A", JNull)>>),
      ListTurn("user", <<ToolResultPart(None, Sunny)>>),
      ListTurn("user", <<TextPart(JStr(Hi))>>),
      ListTurn("system", <<TextPart(JStr(Hi))>>) }

Bodies == UNION {[1..n -> Turns] : n \in 0..MaxTurns}

\* ---- OpenAI messages ----------------------------------------------------------

\* A message of the translated request.  content is NoneText for None;
\* tool_calls is <<>> when the message has no tool_calls key (the code never
\* leaves an empty list under the key); tool_call_id is None when missing.
Message(r, c, tcs, tid) ==
    [role |-> r, content |-> c, tool_calls |-> tcs, tool_call_id |-> tid]

\* transform.py:112-119
ToolCall(part) ==
    [id |-> part.id, type |-> "function", name |-> "fn", arguments |-> JsonDumps(part.input)]

\* [f(p) for p in parts if p.type = ty], as the loops at transform.py:107, 133 build them
RECURSIVE TextParts(_)
TextParts(parts) ==
    IF parts = <<>> THEN <<>>
    ELSE (IF Head(parts).type = "text" THEN <<StrOrDumps(Head(parts).text)>> ELSE <<>>)
         \o TextParts(Tail(parts))

RECURSIVE ToolCalls(_)
ToolCalls(parts) ==
    IF parts = <<>> THEN <<>>
    ELSE (IF Head(parts).type = "tool_use" THEN <<ToolCall(Head(parts))>> ELSE <<>>)
         \o ToolCalls(Tail(parts))

RECURSIVE ToolResults(_)
ToolResults(parts) ==
    IF parts = <<>> THEN <<>>
    ELSE (IF Head(parts).type = "tool_result"
          THEN <<Message("tool", StrOrDumps(Head(parts).content), <<>>, Head(parts).id)>>
          ELSE <<>>)
         \o ToolResults(Tail(parts))

\* An assistant turn with a parts list, were its content to start as the
\* empty string instead of None.
AssistantMessagesEmptyContent(parts) ==
    LET text_content == Strip(JoinLines(TextParts(parts)))
        tool_calls == ToolCalls(parts)
    IN  IF text_content # <<>> \/ tool_calls # <<>>
        THEN <<Message("assistant", text_content, tool_calls, None)>>
        ELSE <<>>

\* An assistant turn with a parts list (transform.py:102-127).
AssistantMessages(parts) ==
    LET text_content == Strip(JoinLines(TextParts(parts)))
        tool_calls == ToolCalls(parts)
        content == IF text_content # <<>> THEN text_content ELSE NoneText
    IN  IF TruthyText(content) \/ tool_calls # <<>>
        THEN <<Message("assistant", content, tool_calls, None)>>
        ELSE <<>>

\* A user turn with a parts list, as a wrong version would translate it:
\* the tool turns first, then the text.
UserMessagesResultsFirst(parts) ==
    LET text_content == Strip(JoinLines(TextParts(parts)))
    IN  ToolResults(parts)
        \o (IF text_content # <<>> THEN <<Message("user", text_content, <<>>, None)>> ELSE <<>>)

\* A user turn with a parts list (transform.py:129-149).
UserMessages(parts) ==
    LET text_content == Strip(JoinLines(TextParts(parts)))
    IN  (IF text_content # <<>> THEN <<Message("user", text_content, <<>>, None)>> ELSE <<>>)
        \o ToolResults(parts)

\* One iteration of `for msg in messages` (transform.py:93-149).
TurnMessages(msg) ==
    IF msg.kind # "list"
    THEN IF msg.kind = "str" THEN <<Message(msg.role, msg.text, <<>>, None)>> ELSE <<>>
    ELSE IF msg.role = "assistant" THEN AssistantMessages(msg.parts)
    ELSE IF msg.role = "user" THEN UserMessages(msg.parts)
    ELSE <<>>

RECURSIVE openai_messages(_)
openai_messages(messages) ==
    IF messages = <<>> THEN <<>>
    ELSE TurnMessages(Head(messages)) \o openai_messages(Tail(messages))

\* ---- _validate_tool_calls -----------------------------------------------------

\* The tool_call_ids of all the tool messages from index j on, were the walk
\* not to stop at the first message that is no tool message.
ImmediateToolIdsAnywhere(messages, j) ==
    {messages[t].tool_call_id : t \in {u \in j..Len(messages) : messages[u].role = "tool"}}

\* The tool_call_ids of the run of tool messages right after index i
\* (transform.py:21-27).
RECURSIVE ImmediateToolIds(_, _)
ImmediateToolIds(messages, j) ==
    IF j <= Len(messages) /\ messages[j].role = "tool"
    THEN {messages[j].tool_call_id} \cup ImmediateToolIds(messages, j + 1)
    ELSE {}

\* [tc for tc in tool_calls if tc.id in ids] (transform.py:28-30)
ValidCalls(tool_calls, ids) == SelectSeq(tool_calls, LAMBDA tc : tc.id \in ids)

\* has_match, were any assistant message before index i to decide, not the
\* first message that is no tool message.
HasMatchAnyEarlier(messages, i, k) ==
    \E j \in 1..k :
        /\ messages[j].role = "assistant"
        /\ \E n \in 1..Len(messages[j].tool_calls) :
              messages[j].tool_calls[n].id = messages[i].tool_call_id

\* has_match, were the walk backward not to skip tool messages: only the
\* message right before index i is looked at.
HasMatchNoSkip(messages, i, k) ==
    /\ k >= 1
    /\ messages[k].role = "assistant"
    /\ \E n \in 1..Len(messages[k].tool_calls) :
          messages[k].tool_calls[n].id = messages[i].tool_call_id

\* has_match for the tool message at index i (transform.py:41-52): the first
\* message before i that is no tool message, if it is an assistant with
\* tool_calls, decides.
RECURSIVE HasMatch(_, _, _)
HasMatch(messages, i, k) ==
    IF k < 1 THEN FALSE
    ELSE LET prev == messages[k]
         IN  IF prev.role = "tool" THEN HasMatch(messages, i, k - 1)
             ELSE /\ prev.role = "assistant"
                  /\ prev.tool_calls # <<>>
                  /\ \E n \in 1..Len(prev.tool_calls) :
                        prev.tool_calls[n].id = messages[i].tool_call_id

\* What the loop appends to validated for index i, were the tool_calls of an
\* assistant message kept whole whenever one of them has its result.
ValidatedAtKeepAllCalls(messages, i) ==
    LET current == messages[i]
    IN  IF current.role = "assistant" /\ current.tool_calls # <<>>
        THEN LET valid_calls == ValidCalls(current.tool_calls, ImmediateToolIds(messages, i + 1))
                 kept == IF valid_calls # <<>> THEN current ELSE [current EXCEPT !.tool_calls = <<>>]
             IN  IF TruthyText(kept.content) \/ kept.tool_calls # <<>> THEN <<kept>> ELSE <<>>
        ELSE IF current.role = "tool"
        THEN IF HasMatch(messages, i, i - 1) THEN <<current>> ELSE <<>>
        ELSE <<current>>

\* What the loop appends to validated for index i (transform.py:17-57).
ValidatedAt(messages, i) ==
    LET current == messages[i]
    IN  IF current.role = "assistant" /\ current.tool_calls # <<>>
        THEN LET valid_calls == ValidCalls(current.tool_calls, ImmediateToolIds(messages, i + 1))
                 kept == [current EXCEPT !.tool_calls = valid_calls]
             IN  IF TruthyText(kept.content) \/ kept.tool_calls # <<>> THEN <<kept>> ELSE <<>>
        ELSE IF current.role = "tool"
        THEN IF HasMatch(messages, i, i - 1) THEN <<current>> ELSE <<>>
        ELSE <<current>>

RECURSIVE ValidatedFrom(_, _)
ValidatedFrom(messages, i) ==
    IF i > Len(messages) THEN <<>>
    ELSE ValidatedAt(messages, i) \o ValidatedFrom(messages, i + 1)

_validate_tool_calls(messages) == ValidatedFrom(messages, 1)

\* ---- the other fields of the request -------------------------------------------

\* A field of the request body: missing, null, or a value.
Absent == [t |-> "absent"]

Null == [t |-> "null"]

Val(v) == [t |-> "val", v |-> v]

\* body.get(key): a missing key reads as None.
Get(x) == IF x = Absent THEN Null ELSE x

\* The numbers a sampling field is given, as written in the request.
Numbers == {"0", "0.0", "0.7"}

\* `if x:` for a field holding a string.
TruthyStr(x) == x.t = "val" /\ x.v # ""

\* `if x:` for a field holding a list.
TruthyList(x) == x.t = "val" /\ x.v # <<>>

\* The fields of the request body other than messages.  reasoning, when a
\* value, is an object with its set of keys; thinking, when a value, is an
\* object [type, budget_tokens] (a field of it Absent when missing); tool_choice, when a value, is a string (kind "str") or an
\* object (kind "obj") with type and name; system, when a value, is a string
\* (kind "str") or a list of text entries (kind "list").
Options(m, st, t, mt, tp, tk, ss, sy, r, re, th, tc, tl) ==
    [model |-> m, stream |-> st, temperature |-> t, max_tokens |-> mt,
     top_p |-> tp, top_k |-> tk, stop_sequences |-> ss, system |-> sy,
     reasoning |-> r, reasoning_effort |-> re, thinking |-> th,
     tool_choice |-> tc, tools |-> tl]

Sonnet35 == <<"c", "l", "a", "u", "d", "e", "-", "3", "-", "5", "-", "s", "o", "n", "n", "e", "t">>

\* A request that names a model and nothing else.
PlainOptions ==
    Options(Sonnet35, Absent, Absent, Absent, Absent, Absent, Absent, Absent,
            Absent, Absent, Absent, Absent, Absent)

\* ---- anthropic_to_openai ------------------------------------------------------

\* d[key] = value
Put(d, key, value) == (key :> value) @@ d

\* One system turn, were cache_control set whatever the model.
SystemMessageAlwaysCached(text, model) ==
    [role |-> "system", content |-> text, tool_calls |-> <<>>, tool_call_id |-> None,
     cache_control |-> TRUE]

\* One system turn (transform.py:81-84, 87-90): its content is one text part,
\* with cache_control when the model id holds 'claude'.
SystemMessage(text, model) ==
    [role |-> "system", content |-> text, tool_calls |-> <<>>, tool_call_id |-> None,
     cache_control |-> Contains(<<"c", "l", "a", "u", "d", "e">>, model)]

\* system_messages (transform.py:79-90).  An entry of a list system is its
\* text, NoneText when the entry has no text key.
system_messages(system, model) ==
    IF system.t # "val" THEN <<>>
    ELSE IF system.v.kind = "str" THEN <<SystemMessage(system.v.text, model)>>
    ELSE IF system.v.kind = "list"
    THEN [n \in 1..Len(system.v.entries) |->
            SystemMessage(IF system.v.entries[n] = NoneText THEN <<>> ELSE system.v.entries[n],
                          model)]
    ELSE <<>>

\* The copy of a sampling field, were it made on the field's truth value
\* (`if temperature:`): a zero is dropped.
CopyIfTruthy(d, key, x) ==
    IF Get(x) # Null /\ x.v \notin {"0", "0.0"} THEN Put(d, key, x.v) ELSE d

\* transform.py:157-167: a sampling field is copied when it is not None.
CopyIfNotNone(d, key, x) == IF Get(x) # Null THEN Put(d, key, x.v) ELSE d

\* transform.py:169-170
CopyStop(d, stop_sequences) ==
    IF TruthyList(stop_sequences) THEN Put(d, "stop", stop_sequences.v) ELSE d

\* transform.py:172-175
CopyReasoning(d, reasoning, thinking) ==
    IF reasoning.t = "val" /\ reasoning.v.keys # {} THEN Put(d, "reasoning", reasoning.v)
    ELSE IF thinking.t = "val" /\ thinking.v.type = Val("enabled")
    THEN Put(d, "reasoning",
             [keys |-> {"max_tokens"}, max_tokens |-> Get(thinking.v.budget_tokens)])
    ELSE d

\* transform.py:177-178
CopyEffort(d, reasoning_effort) ==
    IF TruthyStr(reasoning_effort) THEN Put(d, "reasoning_effort", reasoning_effort.v) ELSE d

\* transform.py:180-193
CopyToolChoice(d, tool_choice) ==
    IF tool_choice.t # "val" THEN d
    ELSE IF tool_choice.v.kind = "obj"
    THEN CASE tool_choice.v.type = "auto" -> Put(d, "tool_choice", [kind |-> "str", v |-> "auto"])
           [] tool_choice.v.type = "any" -> Put(d, "tool_choice", [kind |-> "str", v |-> "required"])
           [] tool_choice.v.type = "tool" ->
                 Put(d, "tool_choice", [kind |-> "function", v |-> tool_choice.v.name])
           [] OTHER -> d
    ELSE IF tool_choice.v.v # "" THEN Put(d, "tool_choice", tool_choice.v) ELSE d

\* transform.py:195-206: a tool is [name, description, input_schema], a field
\* of it Absent when missing.
CopyTools(d, tools) ==
    IF TruthyList(tools)
    THEN Put(d, "tools",
             [n \in 1..Len(tools.v) |->
                [type |-> "function",
                 name |-> Get(tools.v[n].name),
                 description |-> IF tools.v[n].description = Absent
                                 THEN Val("") ELSE tools.v[n].description,
                 parameters |-> IF tools.v[n].input_schema = Absent
                                THEN Val("{}") ELSE tools.v[n].input_schema]])
    ELSE d

\* anthropic_to_openai (transform.py:62-208) for the request with messages b
\* and other fields o, under override ov and registry c: the dict returned,
\* as a function from the keys it has.
anthropic_to_openai(b, o, ov, c) ==
    LET model == Resolver(c, ov, o.model)
        d0 == [model |-> model,
               messages |-> system_messages(o.system, model)
                            \o _validate_tool_calls(openai_messages(b)),
               stream |-> IF o.stream = Absent THEN Val(FALSE) ELSE o.stream]
        d1 == CopyIfNotNone(d0, "temperature", o.temperature)
        d2 == CopyIfNotNone(d1, "max_tokens", o.max_tokens)
        d3 == CopyIfNotNone(d2, "top_p", o.top_p)
        d4 == CopyIfNotNone(d3, "top_k", o.top_k)
        d5 == CopyStop(d4, o.stop_sequences)
        d6 == CopyReasoning(d5, o.reasoning, o.thinking)
        d7 == CopyEffort(d6, o.reasoning_effort)
        d8 == CopyToolChoice(d7, o.tool_choice)
    IN  CopyTools(d8, o.tools)

\* A request body arrives; nothing is translated yet.  The registry is
\* unpopulated and no override is configured.
RequestInit ==
    /\ body \in Bodies
    /\ options = PlainOptions
    /\ result = <<>>
    /\ rpc = "idle"
    /\ tokens = Uncounted
    /\ pc = "start" /\ frame = InitFrame /\ events = <<>> /\ nlines = 0 /\ lastOpen = ""
    /\ cache = EmptyRegistry /\ override = NoneText /\ asked = None /\ resolved = None
    /\ phase = None /\ fetches = 0
    /\ hpc = None /\ creds = None /\ upstream = None /\ client = None /\ calls = 0
    /\ streams = None
    /\ validation = None
    /\ fed = None

\* The handler calls anthropic_to_openai(body, config.model_override)
\* (main.py:100).
Translate ==
    /\ rpc = "idle"
    /\ rpc' = "done"
    /\ result' = anthropic_to_openai(body, options, override, cache)
    /\ UNCHANGED <<body, options, tokens, streamVars, modelVars, serverVars, streams, validation, fed>>

RequestNext == Translate

SpecRequest == RequestInit /\ [][RequestNext]_vars

\* ---- the sampling fields ------------------------------------------------------------

\* What a request gives for a sampling field.
SamplingValues == {Absent, Null} \cup {Val(n) : n \in Numbers}

StopSequences == {Absent, Null, Val(<<>>), Val(<<"END">>)}

SamplingOptions ==
    {[PlainOptions EXCEPT !.temperature = t, !.max_tokens = mt, !.top_p = tp,
                          !.top_k = tk, !.stop_sequences = ss] :
        t \in SamplingValues, mt \in SamplingValues, tp \in SamplingValues,
        tk \in {Absent, Val("0"), Val("0.7")}, ss \in StopSequences}

\* A request with sampling fields arrives at a serving application, under no
\* override, an override known to the registry or one unknown to it.
SamplingInit ==
    /\ body = <<StrTurn("user", Hi)>>
    /\ options \in SamplingOptions
    /\ override \in {NoneText, Gpt5, UnknownModel}
    /\ cache = ServingRegistry
    /\ result = <<>>
    /\ rpc = "idle"
    /\ tokens = Uncounted
    /\ pc = "start" /\ frame = InitFrame /\ events = <<>> /\ nlines = 0 /\ lastOpen = ""
    /\ asked = None /\ resolved = None
    /\ phase = "serving" /\ fetches = 1
    /\ hpc = None /\ creds = None /\ upstream = None /\ client = None /\ calls = 0
    /\ streams = None
    /\ validation = None
    /\ fed = None

SpecSampling == SamplingInit /\ [][RequestNext]_vars

\* ---- the reasoning fields ---------------------------------------------------------

\* What a request gives for reasoning, thinking and reasoning_effort.
ReasoningValues ==
    {Absent, Null, Val([keys |-> {}]), Val([keys |-> {"effort"}, effort |-> "high"])}

Thinking(type, budget_tokens) == Val([type |-> type, budget_tokens |-> budget_tokens])

ThinkingValues ==
    {Absent, Null, Thinking(Absent, Absent), Thinking(Val("enabled"), Val("1024")),
     Thinking(Val("enabled"), Absent), Thinking(Val("disabled"), Val("1024")),
     Thinking(Absent, Val("1024"))}

ReasoningOptions ==
    {[PlainOptions EXCEPT !.reasoning = r, !.thinking = th, !.reasoning_effort = re] :
        r \in ReasoningValues, th \in ThinkingValues,
        re \in {Absent, Null, Val(""), Val("high")}}

\* A request with reasoning fields arrives at a serving application.
ReasoningInit ==
    /\ body = <<StrTurn("user", Hi)>>
    /\ options \in ReasoningOptions
    /\ override \in {NoneText, Gpt5}
    /\ cache = ServingRegistry
    /\ result = <<>>
    /\ rpc = "idle"
    /\ tokens = Uncounted
    /\ pc = "start" /\ frame = InitFrame /\ events = <<>> /\ nlines = 0 /\ lastOpen = ""
    /\ asked = None /\ resolved = None
    /\ phase = "serving" /\ fetches = 1
    /\ hpc = None /\ creds = None /\ upstream = None /\ client = None /\ calls = 0
    /\ streams = None
    /\ validation = None
    /\ fed = None

SpecReasoning == ReasoningInit /\ [][RequestNext]_vars

\* ---- count_tokens ---------------------------------------------------------------------

\* system given as a string and as a list of entries; an entry is its text,
\* NoneText when it has no text key.
SystemStr(x) == Val([kind |-> "str", text |-> x, entries |-> <<>>])

SystemList(es) == Val([kind |-> "list", text |-> <<>>, entries |-> es])

\* p.get('text', '') (transform.py:279): tool_use and tool_result parts have
\* no text key.
PartText(p) == IF p.type = "text" THEN p.text ELSE JStr(<<>>)

\* len(x) of a JSON value: the characters of a string, the members of an
\* object; None and numbers have no len() and the call raises TypeError.
HasLen(j) == j.t # "null"

JsonLen(j) ==
    CASE j.t = "str" -> Len(j.v)
      [] j.t = "obj" -> 1
      [] j.t = "empty" -> 0
      [] OTHER -> 0

RECURSIVE SumLen(_)
SumLen(js) == IF js = <<>> THEN 0 ELSE JsonLen(Head(js)) + SumLen(Tail(js))

\* The characters count_tokens adds for system (transform.py:268-272).
SystemChars(system) ==
    IF system.t # "val" THEN 0
    ELSE IF system.v.kind = "str" THEN Len(system.v.text)
    ELSE IF system.v.kind = "list"
    THEN SumLen([n \in 1..Len(system.v.entries) |->
                    IF system.v.entries[n] = NoneText THEN JStr(<<>>)
                    ELSE JStr(system.v.entries[n])])
    ELSE 0

\* The characters count_tokens adds for one message (transform.py:274-279).
TurnChars(msg) ==
    IF msg.kind = "str" THEN Len(msg.text)
    ELSE IF msg.kind = "list"
    THEN SumLen([n \in 1..Len(msg.parts) |-> PartText(msg.parts[n])])
    ELSE 0

RECURSIVE MessagesChars(_)
MessagesChars(b) == IF b = <<>> THEN 0 ELSE TurnChars(Head(b)) + MessagesChars(Tail(b))

\* len() is called on a text that has none (transform.py:279).
TurnRaises(msg) ==
    msg.kind = "list" /\ \E n \in 1..Len(msg.parts) : ~HasLen(PartText(msg.parts[n]))

\* count_tokens(body) (transform.py:264-281)
count_tokens(b, o) ==
    IF \E i \in 1..Len(b) : TurnRaises(b[i]) THEN TypeError
    ELSE Returned((SystemChars(o.system) + MessagesChars(b) + 3) \div 4)

\* The turns and the system values the estimator is given.
TokenTurns ==
    { StrTurn("user", Hi), StrTurn("assistant", <<>>), OtherTurn("user"),
      ListTurn("user", <<>>),
      ListTurn("user", <<TextPart(JStr(<<"a">>)), TextPart(JStr(Hi))>>),
      ListTurn("assistant", <<TextPart(JStr(Hi)), ToolUsePart("A")>>),
      ListTurn("user", <<ToolResultPart("A", Sunny)>>),
      ListTurn("user", <<TextPart(JObj(<<"k">>, <<"v">>))>>),
      ListTurn("user", <<TextPart(JStr(Hi)), TextPart(JNull)>>) }

TokenSystems ==
    { Absent, Null, SystemStr(<<>>), SystemStr(<<"b", "e">>),
      SystemList(<<>>), SystemList(<<Hi, NoneText>>), SystemList(<<<<"a">>, Hi>>) }

\* A request body arrives at the token estimator.
TokensInit ==
    /\ body \in UNION {[1..n -> TokenTurns] : n \in 0..MaxTurns}
    /\ \E sy \in TokenSystems : options = [PlainOptions EXCEPT !.system = sy]
    /\ result = <<>>
    /\ rpc = "idle"
    /\ tokens = Uncounted
    /\ pc = "start" /\ frame = InitFrame /\ events = <<>> /\ nlines = 0 /\ lastOpen = ""
    /\ cache = EmptyRegistry /\ override = NoneText /\ asked = None /\ resolved = None
    /\ phase = None /\ fetches = 0
    /\ hpc = None /\ creds = None /\ upstream = None /\ client = None /\ calls = 0
    /\ streams = None
    /\ validation = None
    /\ fed = None

\* The handlers call count_tokens(body) (main.py:116, 181).
CountTokens ==
    /\ rpc = "idle"
    /\ rpc' = "done"
    /\ tokens' = count_tokens(body, options)
    /\ UNCHANGED <<body, options, result, streamVars, modelVars, serverVars, streams, validation, fed>>

TokensNext == CountTokens

SpecTokens == TokensInit /\ [][TokensNext]_vars

\* Every text the estimator reads in the body is a string.
TextsAreStrings(b) ==
    \A i \in 1..Len(b) :
        b[i].kind = "list" =>
            \A n \in 1..Len(b[i].parts) : PartText(b[i].parts[n]).t = "str"

\* The least k with 4 * k >= n.
Ceil4(n) == CHOOSE k \in 0..n : 4 * k >= n /\ 4 * (k - 1) < n

\* C23: count_tokens returns the ceiling of (total characters / 4), the
\* total being the length of system when a string, the lengths of the text
\* fields of its entries when a list, the length of each message content that
\* is a string and the lengths of the text fields of the parts of each
\* content that is a list; a body with no text yields 0.
C23_CeilOfChars ==
    rpc = "done" =>
        /\ ~tokens.raised
        /\ TextsAreStrings(body) =>
              tokens.value = Ceil4(SystemChars(options.system) + MessagesChars(body))
        /\ (SystemChars(options.system) + MessagesChars(body) = 0) => tokens.value = 0

\* A body of 2 + 3 + 2 characters in a string content, two text parts and a
\* system string was counted as 2 tokens.
C23_StringsCounted ==
    /\ rpc = "done"
    /\ body = <<StrTurn("user", Hi),
                ListTurn("user", <<TextPart(JStr(<<"a">>)), TextPart(JStr(Hi))>>)>>
    /\ options.system = SystemStr(<<"b", "e">>)
    /\ tokens = Returned(2)

\* A body without text (a tool_result part, an empty parts list, a null
\* content) was counted as 0 tokens.
C23_NoText ==
    /\ rpc = "done"
    /\ body = <<ListTurn("user", <<ToolResultPart("A", Sunny)>>), ListTurn("user", <<>>),
                OtherTurn("user")>>
    /\ options.system = Null
    /\ tokens = Returned(0)

\* ---- the system turns -------------------------------------------------------------

MyClaude == <<"m", "y", "-", "c", "l", "a", "u", "d", "e">>

\* Requests with a system field, a model name and a conversation of user and
\* assistant turns.
SystemOptions ==
    {[PlainOptions EXCEPT !.model = m, !.system = sy] :
        m \in {Sonnet35, <<"C", "l", "a", "u", "d", "e", "-", "O", "P", "U", "S">>,
               <<"g", "p", "t", "-", "4">>},
        sy \in TokenSystems}

SystemBodies ==
    { <<>>,
      <<StrTurn("user", Hi)>>,
      <<StrTurn("user", Hi), StrTurn("assistant", Hi)>>,
      <<StrTurn("user", Hi), ListTurn("assistant", <<ToolUsePart("A")>>),
        ListTurn("user", <<ToolResultPart("A", Sunny)>>)>> }

\* A request with a system field arrives, under no override, an override
\* without 'claude' or one with it, at an unpopulated or a populated registry.
SystemInit ==
    /\ body \in SystemBodies
    /\ options \in SystemOptions
    /\ override \in {NoneText, Gpt5, MyClaude}
    /\ cache \in {EmptyRegistry, ServingRegistry}
    /\ result = <<>>
    /\ rpc = "idle"
    /\ tokens = Uncounted
    /\ pc = "start" /\ frame = InitFrame /\ events = <<>> /\ nlines = 0 /\ lastOpen = ""
    /\ asked = None /\ resolved = None
    /\ phase = "serving" /\ fetches = 1
    /\ hpc = None /\ creds = None /\ upstream = None /\ client = None /\ calls = 0
    /\ streams = None
    /\ validation = None
    /\ fed = None

SpecSystem == SystemInit /\ [][RequestNext]_vars

\* ---- properties of the request translator -----------------------------------

\* The index of the nearest message before i that is no tool message (0 if none).
PrevNonTool(M, i) ==
    LET S == {k \in 1..(i - 1) : M[k].role # "tool"}
    IN  IF S = {} THEN 0 ELSE CHOOSE k \in S : \A q \in S : q <= k

\* Message t is a tool message in the run of tool messages right after message a.
InToolRunAfter(M, a, t) ==
    /\ a < t /\ t <= Len(M)
    /\ \A k \in (a + 1)..t : M[k].role = "tool"

\* The tool-pairing invariant of a message list.
ToolPairing(M) ==
    /\ \A i \in 1..Len(M) :
          M[i].role = "tool" =>
             LET k == PrevNonTool(M, i)
             IN  /\ k > 0
                 /\ M[k].role = "assistant"
                 /\ \E n \in 1..Len(M[k].tool_calls) : M[k].tool_calls[n].id = M[i].tool_call_id
    /\ \A a \in 1..Len(M) :
          \A n \in 1..Len(M[a].tool_calls) :
             \E t \in 1..Len(M) :
                InToolRunAfter(M, a, t) /\ M[t].tool_call_id = M[a].tool_calls[n].id

\* C6: the messages anthropic_to_openai returns satisfy the tool-pairing
\* invariant: every tool turn has, before its run of tool turns, an assistant
\* turn with a tool_calls entry of its id, and every tool_calls entry has a
\* tool turn of its id in the run of tool turns right after its assistant turn.
C6_ToolPairing == rpc = "done" => ToolPairing(result.messages)

\* The validator kept a pair and dropped an orphan.
C6_Witness ==
    /\ rpc = "done"
    /\ \E i \in 1..Len(result.messages) : result.messages[i].role = "tool"
    /\ ~ToolPairing(openai_messages(body))

\* The ids of the parts of type ty in turn msg.
PartIds(msg, ty) == {msg.parts[n].id : n \in {m \in 1..Len(msg.parts) : msg.parts[m].type = ty}}

\* An assistant turn with a tool_use X directly followed by a user turn with
\* a tool_result for X.
RoundTrips ==
    {<<i, x>> \in (1..(Len(body) - 1)) \X {None, "A", "B"} :
        /\ body[i].kind = "list" /\ body[i].role = "assistant"
        /\ body[i + 1].kind = "list" /\ body[i + 1].role = "user"
        /\ x \in PartIds(body[i], "tool_use")
        /\ x \in PartIds(body[i + 1], "tool_result")}

\* The contents a tool turn for X may have: those of the tool_result parts
\* for X of turn msg, raw when a string and JSON-encoded otherwise.
ResultContents(msg, x) ==
    {StrOrDumps(msg.parts[n].content) :
        n \in {m \in 1..Len(msg.parts) :
                 msg.parts[m].type = "tool_result" /\ msg.parts[m].id = x}}

\* C7: for every assistant turn with a tool_use X directly followed by a user
\* turn with a tool_result for X, whatever else that user turn holds, the
\* translated messages hold an assistant turn with a tool_calls entry X and,
\* in the run of tool turns after it, a tool turn for X with the result as
\* content.
C7_ToolRoundTrip ==
    rpc = "done" =>
        \A rt \in RoundTrips :
            LET M == result.messages
            IN  \E a \in 1..Len(M), t \in 1..Len(M) :
                   /\ M[a].role = "assistant"
                   /\ \E n \in 1..Len(M[a].tool_calls) : M[a].tool_calls[n].id = rt[2]
                   /\ InToolRunAfter(M, a, t)
                   /\ M[t].tool_call_id = rt[2]
                   /\ M[t].content \in ResultContents(body[rt[1] + 1], rt[2])

\* The round trip of a user turn that holds no text beside its tool results.
C7_RoundTripWithoutText ==
    rpc = "done" /\ RoundTrips # {} /\ C7_ToolRoundTrip

\* The assistant turns of the request whose parts list holds tool_use parts
\* and no text beyond whitespace.
ToolOnlyTurns ==
    {i \in 1..Len(body) :
        /\ body[i].kind = "list" /\ body[i].role = "assistant"
        /\ \E n \in 1..Len(body[i].parts) : body[i].parts[n].type = "tool_use"
        /\ \A n \in 1..Len(body[i].parts) :
              body[i].parts[n].type = "text" =>
                 /\ body[i].parts[n].text.t = "str"
                 /\ \A k \in 1..Len(body[i].parts[n].text.v) :
                       body[i].parts[n].text.v[k] \in Whitespace}

\* The number of tool_use parts of a turn.
ToolUseCount(msg) == Cardinality({n \in 1..Len(msg.parts) : msg.parts[n].type = "tool_use"})

\* C16 as claimed: an assistant turn with only tool_use parts is emitted as
\* an assistant turn that has tool_calls and no content field at all.
C16_NoContentField ==
    rpc = "done" =>
        \A i \in ToolOnlyTurns :
            LET out == TurnMessages(body[i])
            IN  /\ Len(out) = 1
                /\ out[1].role = "assistant"
                /\ Len(out[1].tool_calls) = ToolUseCount(body[i])
                /\ "content" \notin DOMAIN out[1]

\* C16 as amended: an assistant turn with only tool_use parts is emitted,
\* before validation, as one assistant turn that has the tool_calls of its
\* parts and a content field whose value is None; and every assistant turn
\* of the translated request that has tool_calls has a content field.
C16_NullContentField ==
    rpc = "done" =>
        /\ \A i \in ToolOnlyTurns :
              LET out == TurnMessages(body[i])
              IN  /\ Len(out) = 1
                  /\ out[1].role = "assistant"
                  /\ Len(out[1].tool_calls) = ToolUseCount(body[i])
                  /\ "content" \in DOMAIN out[1]
                  /\ out[1].content = NoneText
        /\ \A k \in 1..Len(result.messages) :
              (result.messages[k].role = "assistant" /\ result.messages[k].tool_calls # <<>>)
                 => "content" \in DOMAIN result.messages[k]

\* A turn with only tool_use parts was translated and kept by the validator:
\* the translated request holds an assistant turn with tool_calls and
\* content None.
C16_Witness ==
    /\ rpc = "done"
    /\ ToolOnlyTurns # {}
    /\ \E k \in 1..Len(result.messages) :
          /\ result.messages[k].role = "assistant"
          /\ Len(result.messages[k].tool_calls) = 2
          /\ result.messages[k].content = NoneText

\* ---- properties of the sampling fields ------------------------------------------------

\* The keys under which the translated request carries sampling parameters.
SamplingKeys == {"temperature", "max_tokens", "top_p", "top_k", "stop"}

\* What the request supplies under a key of the translated request.
Supplied(key) == IF key = "stop" THEN options.stop_sequences ELSE options[key]

\* C12: when the registry records a supported-parameter set for the resolved
\* model, the translated request holds no sampling parameter outside that
\* set and holds every supplied one inside it; when the registry does not
\* know the resolved model, every supplied parameter passes through; model,
\* messages and stream are always kept.
C12_UnsupportedParamsOmitted ==
    rpc = "done" =>
        LET supported == get_supported_params(cache, result.model)
        IN  /\ {"model", "messages", "stream"} \subseteq DOMAIN result
            /\ \A key \in SamplingKeys :
                  LET supplied == IF key = "stop" THEN TruthyList(Supplied(key))
                                  ELSE Supplied(key).t = "val"
                      allowed == ~supported.some \/ key \in supported.val
                  IN  key \in DOMAIN result <=> (supplied /\ allowed)

\* A request under an override unknown to the registry keeps what it supplies.
C12_UnknownModelPassesAll ==
    /\ rpc = "done"
    /\ result.model = UnknownModel
    /\ ~get_supported_params(cache, result.model).some
    /\ {"temperature", "top_p"} \subseteq DOMAIN result

ThinkingEnabled(o) == o.thinking.t = "val" /\ o.thinking.v.type = Val("enabled")

\* C24: in the translated request, reasoning equals the request's reasoning
\* value whenever reasoning is present, even if thinking is also present;
\* when reasoning is absent and thinking.type is "enabled", reasoning equals
\* {max_tokens: thinking.budget_tokens}; when neither holds the output has no
\* reasoning key.
C24_ReasoningOrThinking ==
    rpc = "done" =>
        IF options.reasoning.t = "val"
        THEN "reasoning" \in DOMAIN result /\ result.reasoning = options.reasoning.v
        ELSE IF ThinkingEnabled(options)
        THEN /\ "reasoning" \in DOMAIN result
             /\ result.reasoning =
                    [keys |-> {"max_tokens"},
                     max_tokens |-> Get(options.thinking.v.budget_tokens)]
        ELSE "reasoning" \notin DOMAIN result

\* A request with reasoning {effort: high} and thinking enabled was
\* translated with the request's reasoning.
C24_ReasoningWins ==
    /\ rpc = "done"
    /\ options.reasoning = Val([keys |-> {"effort"}, effort |-> "high"])
    /\ options.thinking = Thinking(Val("enabled"), Val("1024"))
    /\ result.reasoning = [keys |-> {"effort"}, effort |-> "high"]

\* A request without reasoning and with thinking enabled was translated with
\* reasoning {max_tokens: 1024}; one with thinking disabled, without the key.
C24_ThinkingBudget ==
    /\ rpc = "done"
    /\ options.reasoning = Absent
    /\ options.thinking = Thinking(Val("enabled"), Val("1024"))
    /\ result.reasoning = [keys |-> {"max_tokens"}, max_tokens |-> Val("1024")]

C24_NoReasoningKey ==
    /\ rpc = "done"
    /\ options.reasoning = Absent
    /\ options.thinking = Thinking(Val("disabled"), Val("1024"))
    /\ "reasoning" \notin DOMAIN result

\* ---- properties of the system turns --------------------------------------------------

\* The texts of the system turns the request asks for, in input order: one
\* for a string, one per entry of a list ('' for an entry without text),
\* none otherwise.
SystemTexts(system) ==
    IF system.t # "val" THEN <<>>
    ELSE IF system.v.kind = "str" THEN <<system.v.text>>
    ELSE [n \in 1..Len(system.v.entries) |->
             IF system.v.entries[n] = NoneText THEN <<>> ELSE system.v.entries[n]]

HoldsClaude(model) ==
    \E i \in 1..Len(model) :
        i + 5 <= Len(model) /\ SubSeq(model, i, i + 5) = <<"c", "l", "a", "u", "d", "e">>

\* C25: in the translated messages all system turns come first, in input
\* order, before every non-system turn: a string system yields exactly one
\* system turn, a list system one per entry, an absent or empty system none;
\* each system text part carries cache_control if and only if the resolved
\* model id (after any override) contains the substring 'claude'.
C25_SystemTurnsFirst ==
    rpc = "done" =>
        LET want == SystemTexts(options.system)
            M == result.messages
        IN  /\ Len(M) >= Len(want)
            /\ \A i \in 1..Len(M) :
                  IF i <= Len(want)
                  THEN /\ M[i].role = "system"
                       /\ M[i].content = want[i]
                       /\ M[i].cache_control = HoldsClaude(result.model)
                  ELSE M[i].role # "system"
            /\ TruthyText(override) => result.model = override

\* A list system of two entries under an override without 'claude': two
\* system turns in input order, without cache_control, before the user turn.
C25_Witness ==
    /\ rpc = "done"
    /\ options.system = SystemList(<<<<"a">>, Hi>>)
    /\ options.model = Sonnet35 /\ override = Gpt5
    /\ Len(result.messages) = 3
    /\ result.messages[1].content = <<"a">> /\ ~result.messages[1].cache_control
    /\ result.messages[2].content = Hi /\ ~result.messages[2].cache_control
    /\ result.messages[3].role = "user"

\* A string system for a model resolved to a Claude id: one system turn with
\* cache_control; an empty list system: none.
C25_WitnessCached ==
    /\ rpc = "done"
    /\ options.system = SystemStr(<<"b", "e">>) /\ override = NoneText
    /\ Len(result.messages) = 2
    /\ result.messages[1].role = "system" /\ result.messages[1].cache_control

C25_WitnessEmpty ==
    /\ rpc = "done"
    /\ options.system = SystemList(<<>>) /\ body # <<>>
    /\ \A i \in 1..Len(result.messages) : result.messages[i].role # "system"

(***************************************************************************)
(*            PART 4: the response translator openai_to_anthropic          *)
(***************************************************************************)

\* ---- the upstream completion ---------------------------------------------------

\* The JSON values an arguments string may encode.
JsonValues == {JObj(<<"q">>, <<"x">>), JEmpty, JNull, JStr(Hi)}

\* json.loads on the text x: the value it encodes, or a JSONDecodeError
\* (ok FALSE) when it encodes none.
JsonLoads(x) ==
    IF \E j \in JsonValues : JsonDumps(j) = x
    THEN [ok |-> TRUE, value |-> CHOOSE j \in JsonValues : JsonDumps(j) = x]
    ELSE [ok |-> FALSE, value |-> JNull]

\* An entry of message.tool_calls: its id, and function.name and
\* function.arguments, Absent when missing.
CompletionToolCall(i, a) == [id |-> i, name |-> Val("fn"), arguments |-> a]

GoodArguments == Val(JsonDumps(JObj(<<"q">>, <<"x">>)))

BadArguments == Val(<<"{", "\"", "q">>)

ToolCallsFields ==
    { Absent, Null, Val(<<>>),
      Val(<<CompletionToolCall(Val("t1"), GoodArguments)>>),
      Val(<<CompletionToolCall(Val("t1"), BadArguments)>>),
      Val(<<CompletionToolCall(Absent, Absent), CompletionToolCall(Val("t2"), Val(<<"{", "}">>))>>) }

\* choices[0].message
CompletionMessage(r, c, tcs) == [reasoning |-> r, content |-> c, tool_calls |-> tcs]

CompletionMessages ==
    {CompletionMessage(r, c, tcs) :
        r \in {Absent, Val("think")}, c \in {Absent, Null, Val(""), Val("hi")},
        tcs \in ToolCallsFields}

FinishReasons ==
    {Absent, Null, Val(""), Val("tool_calls"), Val("stop"), Val("length"), Val("TOOL_CALLS")}

\* choices[0]
Choice(m, fr) == [message |-> m, finish_reason |-> fr]

\* A usage object, a count Absent when missing.
Usage(p, c) == [prompt_tokens |-> p, completion_tokens |-> c]

\* The decoded completion: choices is Absent or holds one choice; usage is
\* Absent or an object.  (A completion with an empty choices list, a null
\* message or a null usage makes openai_to_anthropic raise at
\* transform.py:214, 219, 258; the upstream sends none of these with a
\* success status.)
Completion(ch, u) == [choices |-> ch, usage |-> u]

Completions ==
    {Completion(Val(<<Choice(Val(m), fr)>>), Val(Usage(Val(12), Val(7)))) :
        m \in CompletionMessages, fr \in FinishReasons}
    \cup {Completion(Val(<<Choice(Absent, fr)>>), Absent) : fr \in FinishReasons}
    \cup {Completion(Absent, Val(Usage(Absent, Val(7)))),
          Completion(Absent, Val(Usage(Val(12), Absent)))}

\* ---- openai_to_anthropic -------------------------------------------------------

\* One tool_use block, were the input of unparseable arguments left null.
ToolUseBlockNullInput(tc) ==
    LET loaded == IF tc.arguments = Absent THEN JsonLoads(<<"{", "}">>)
                  ELSE JsonLoads(tc.arguments.v)
    IN  [type |-> "tool_use", id |-> Get(tc.id), name |-> Get(tc.name),
         input |-> IF loaded.ok THEN loaded.value ELSE JNull]

\* One tool_use block (transform.py:230-242).
ToolUseBlock(tc) ==
    LET loaded == IF tc.arguments = Absent THEN JsonLoads(<<"{", "}">>)
                  ELSE JsonLoads(tc.arguments.v)
    IN  [type |-> "tool_use", id |-> Get(tc.id), name |-> Get(tc.name),
         input |-> IF loaded.ok THEN loaded.value ELSE JEmpty]

\* The content list (transform.py:217-242).
ResponseContent(message) ==
    (IF TruthyStr(message.reasoning)
     THEN <<[type |-> "thinking", thinking |-> message.reasoning.v,
             signature |-> "openrouter-reasoning"]>>
     ELSE <<>>)
    \o (IF TruthyStr(message.content)
        THEN <<[type |-> "text", text |-> message.content.v]>>
        ELSE <<>>)
    \o (IF TruthyList(message.tool_calls)
        THEN [n \in 1..Len(message.tool_calls.v) |-> ToolUseBlock(message.tool_calls.v[n])]
        ELSE <<>>)

\* has_tool_calls (transform.py:246), were it read from finish_reason alone.
has_tool_calls_finish_reason_only(finish_reason, message) ==
    finish_reason = Val("tool_calls")

\* has_tool_calls (transform.py:245-246)
has_tool_calls(finish_reason, message) ==
    finish_reason = Val("tool_calls") \/ TruthyList(message.tool_calls)

\* usage.get(key, 0)
Count(x) == IF x = Absent THEN 0 ELSE x.v

\* openai_to_anthropic (transform.py:211-261).  The id, 'msg_' and the clock
\* in milliseconds, is left out.
openai_to_anthropic(data, model) ==
    LET choice == IF data.choices = Absent
                  THEN Choice(Absent, Absent) ELSE data.choices.v[1]
        message == IF choice.message = Absent
                   THEN CompletionMessage(Absent, Absent, Absent) ELSE choice.message.v
        usage == IF data.usage = Absent THEN Usage(Absent, Absent) ELSE data.usage.v
    IN  [type |-> "message",
         role |-> "assistant",
         content |-> ResponseContent(message),
         model |-> model,
         stop_reason |-> IF has_tool_calls(choice.finish_reason, message)
                         THEN "tool_use" ELSE "end_turn",
         stop_sequence |-> Null,
         usage |-> [input_tokens |-> Count(usage.prompt_tokens),
                    output_tokens |-> Count(usage.completion_tokens)]]

(***************************************************************************)
(*                 PART 5: the /v1/messages handler (main.py)              *)
(***************************************************************************)

\* ---- the request and the upstream ------------------------------------------------

\* config.openrouter_api_key and the X-API-Key and Authorization headers of
\* the request, None when missing; api_key is the handler's local.
Credentials(e, x, a) == [env |-> e, x_api_key |-> x, authorization |-> a, api_key |-> None]

\* authorization.removeprefix('Bearer ')
RemoveBearer(a) ==
    CASE a = "Bearer " -> ""
      [] a = "Bearer B" -> "B"
      [] OTHER -> a

\* api_key (main.py:87-91): the first truthy of the three, None when none is.
ApiKey(cr) ==
    IF Truthy(cr.env) THEN cr.env
    ELSE IF Truthy(cr.x_api_key) THEN cr.x_api_key
    ELSE IF Truthy(cr.authorization) /\ RemoveBearer(cr.authorization) # ""
    THEN RemoveBearer(cr.authorization)
    ELSE None

\* The credentials of a non-streaming request; those of a streaming request.
CredentialSets ==
    {Credentials(e, x, a) :
        e \in {None, "E"}, x \in {None, "", "X"}, a \in {None, "Bearer ", "Bearer B", "B"}}
    \cup {Credentials("", None, None), Credentials("", "X", "Bearer B")}

StreamingCredentialSets == {Credentials(None, None, None), Credentials(None, "", "Bearer B")}

\* The messages of a streaming request: a string content, and a text part
\* whose text is null.
StreamingBodies == {<<StrTurn("user", Hi)>>, <<ListTurn("user", <<TextPart(JNull)>>)>>}

\* The stream field of a request.
StreamFlags == {Absent, Null, Val(FALSE), Val(TRUE)}

\* `if is_streaming:` (main.py:102, 114): openai_request['stream'] is the
\* request's stream field (transform.py:68, 154).
IsStreaming(request) == request.stream = Val(TRUE)

\* response.is_success: a 2xx status.
IsSuccess(status) == 200 <= status /\ status < 300

ErrorStatuses == {301, 400, 429, 500}

\* The body of an upstream response, as bytes: the text they encode when
\* they are valid UTF-8, and bytes that are not (a page in another charset).
Bytes(text) == [utf8 |-> TRUE, text |-> text]

NotUtf8 == [utf8 |-> FALSE, text |-> "<FF>"]

\* The bodies of upstream error responses.
ErrorBodies == {Bytes(""), Bytes("rate limited"), Bytes("{\"error\": \"bad\"}"), NotUtf8}

\* response.text: httpx decodes with errors='replace', so every body has a
\* text.
ResponseText(bytes) == IF bytes.utf8 THEN bytes.text ELSE "<U+FFFD>"

\* What the client holds of the response: nothing yet (status 0), a JSON
\* response (status and body), or a streaming response (status 200 and the
\* frames other than translator events; the events are in `events`).
NoResponse == [status |-> 0, body |-> [kind |-> "none"], frames |-> <<>>]

\* JSONResponse(status_code=401, ...) (main.py:94-97)
KeyRequired ==
    [status |-> 401,
     body |-> [kind |-> "error", message |-> "API key required"],
     frames |-> <<>>]

\* The error response of the non-streaming path, were the status left at
\* JSONResponse's default.
ErrorResponseDefaultStatus(status, text) ==
    [status |-> 200, body |-> [kind |-> "error", message |-> text], frames |-> <<>>]

\* JSONResponse(status_code=response.status_code,
\*              content={'error': {'message': response.text}}) (main.py:157-160)
ErrorResponse(status, text) ==
    [status |-> status, body |-> [kind |-> "error", message |-> text], frames |-> <<>>]

\* JSONResponse(content=anthropic_response) (main.py:162-164)
MessageResponse(data, requested_model) ==
    [status |-> 200,
     body |-> [kind |-> "message", message |-> openai_to_anthropic(data, requested_model)],
     frames |-> <<>>]

\* StreamingResponse(generate(), ...) (main.py:138-145) before any frame.
StreamingStarted == [status |-> 200, body |-> [kind |-> "stream"], frames |-> <<>>]

\* f'data: {{"error": "{error_text.decode()}"}}\n\n' (main.py:130)
ErrorFrame(text) == "data: {\"error\": \"" \o text \o "\"}\n\n"

\* The upstream response: its status, its body as bytes (of an error) and as
\* decoded JSON (of a completion).
UpstreamResponse(status, bytes, data) == [status |-> status, body |-> bytes, data |-> data]

NoCompletion == Completion(Absent, Absent)

\* ---- the handler --------------------------------------------------------------------

\* The application serves; a request has arrived and is not yet handled.
ServerInit ==
    /\ hpc = "idle"
    /\ \E st \in StreamFlags :
          /\ options = [PlainOptions EXCEPT !.stream = st]
          /\ creds \in IF IsStreaming(options) THEN StreamingCredentialSets ELSE CredentialSets
          /\ body \in IF IsStreaming(options) THEN StreamingBodies ELSE {<<StrTurn("user", Hi)>>}
    /\ result = <<>>
    /\ rpc = "idle"
    /\ tokens = Uncounted
    /\ upstream = UpstreamResponse(0, Bytes(""), NoCompletion)
    /\ client = NoResponse
    /\ calls = 0
    /\ streams = None
    /\ validation = None
    /\ fed = None
    /\ cache = ServingRegistry /\ override = NoneText /\ asked = None /\ resolved = None
    /\ phase = "serving" /\ fetches = 1
    /\ pc = "unborn" /\ frame = InitFrame /\ events = <<>> /\ nlines = 0 /\ lastOpen = ""

\* messages up to the upstream call (main.py:85-116, 138-145): without a key
\* the 401 response; otherwise the request is translated and, for a
\* streaming request, the input tokens are estimated and the
\* StreamingResponse is returned, whose generator runs next.  A TypeError of
\* count_tokens leaves the handler: the client gets no response of the
\* handler's.
Receive ==
    /\ hpc = "idle"
    /\ LET api_key == ApiKey(creds)
           estimated_input_tokens == count_tokens(body, options)
       IN  IF ~Truthy(api_key)
           THEN /\ client' = KeyRequired
                /\ hpc' = "done"
                /\ UNCHANGED <<creds, result, rpc, tokens>>
           ELSE /\ creds' = [creds EXCEPT !.api_key = api_key]
                /\ result' = anthropic_to_openai(body, options, override, cache)
                /\ rpc' = "done"
                /\ IF ~IsStreaming(options)
                   THEN hpc' = "call" /\ UNCHANGED <<client, tokens>>
                   ELSE /\ tokens' = estimated_input_tokens
                        /\ IF estimated_input_tokens.raised
                           THEN hpc' = "raised" /\ client' = client
                           ELSE hpc' = "call" /\ client' = StreamingStarted
    /\ UNCHANGED <<body, options, upstream, calls, streamVars, modelVars, streams, validation, fed>>

\* generate when the upstream response is no success (main.py:118-131):
\* the body is read and decoded; bytes.decode() raises UnicodeDecodeError on
\* bytes that are not UTF-8 (main.py:129), which ends the generator without
\* a frame; otherwise one frame is yielded and the generator returns.
StreamError ==
    /\ hpc = "call"
    /\ IsStreaming(options)
    /\ \E status \in ErrorStatuses, error_text \in ErrorBodies :
          /\ upstream' = UpstreamResponse(status, error_text, NoCompletion)
          /\ IF error_text.utf8
             THEN /\ client' = [client EXCEPT !.frames = Append(@, ErrorFrame(error_text.text))]
                  /\ hpc' = "done"
             ELSE /\ client' = client
                  /\ hpc' = "raised"
    /\ calls' = calls + 1
    /\ UNCHANGED <<creds, requestVars, modelVars, streamVars, streams, validation, fed>>

\* generate when the upstream response is a success (main.py:118-127,
\* 133-136): stream_openai_to_anthropic is started on the response, and its
\* events are passed on as it yields them.
StreamOpen ==
    /\ hpc = "call"
    /\ IsStreaming(options)
    /\ upstream' = UpstreamResponse(200, Bytes(""), NoCompletion)
    /\ calls' = calls + 1
    /\ hpc' = "stream"
    /\ pc' = "start"
    /\ UNCHANGED <<creds, client, requestVars, modelVars, frame, events, nlines, lastOpen, streams, validation, fed>>

\* The non-streaming call when the upstream response is no success, were the
\* handler to issue the call once more after a 429.
CallErrorRetried ==
    /\ hpc = "call"
    /\ ~IsStreaming(options)
    /\ \E status \in ErrorStatuses, bytes \in ErrorBodies :
          /\ upstream' = UpstreamResponse(status, bytes, NoCompletion)
          /\ client' = ErrorResponse(status, ResponseText(bytes))
          /\ hpc' = IF status = 429 /\ calls = 0 THEN "call" ELSE "done"
    /\ calls' = calls + 1
    /\ UNCHANGED <<creds, requestVars, modelVars, streamVars, streams, validation, fed>>

\* The non-streaming call when the upstream response is no success
\* (main.py:147-160).
CallError ==
    /\ hpc = "call"
    /\ ~IsStreaming(options)
    /\ \E status \in ErrorStatuses, bytes \in ErrorBodies :
          /\ upstream' = UpstreamResponse(status, bytes, NoCompletion)
          /\ client' = ErrorResponse(status, ResponseText(bytes))
    /\ calls' = calls + 1
    /\ hpc' = "done"
    /\ UNCHANGED <<creds, requestVars, modelVars, streamVars, streams, validation, fed>>

\* The non-streaming call when the upstream response is a success
\* (main.py:147-153, 162-164); requested_model is body.get('model', 'unknown').
CallSuccess ==
    /\ hpc = "call"
    /\ ~IsStreaming(options)
    /\ \E status \in {200, 201}, data \in Completions :
          /\ upstream' = UpstreamResponse(status, Bytes(""), data)
          /\ client' = MessageResponse(data, options.model)
    /\ calls' = calls + 1
    /\ hpc' = "done"
    /\ UNCHANGED <<creds, requestVars, modelVars, streamVars, streams, validation, fed>>

\* The upstream connection breaks while the body is streamed:
\* response.aiter_lines() raises (stream.py:57), nothing catches it in
\* stream_openai_to_anthropic or in generate (main.py:133-136), and the
\* response ends there.
StreamBroken ==
    /\ hpc = "stream"
    /\ pc = "loop"
    /\ pc' = "raised"
    /\ hpc' = "raised"
    /\ UNCHANGED <<creds, upstream, client, calls, requestVars, modelVars,
                   frame, events, nlines, lastOpen, streams, validation, fed>>

ServerNext ==
    \/ Receive
    \/ StreamError
    \/ StreamOpen
    \/ StreamBroken
    \/ CallError
    \/ CallSuccess
    \/ Start /\ UNCHANGED <<requestVars, modelVars, serverVars, streams, validation, fed>>
    \/ NextLine /\ UNCHANGED <<requestVars, modelVars, serverVars, streams, validation, fed>>
    \/ EndOfStream /\ UNCHANGED <<requestVars, modelVars, serverVars, streams, validation, fed>>

SpecServer == ServerInit /\ [][ServerNext]_vars

\* ---- properties of the handler and of the response translator ---------------------

\* The handler answered a non-streaming request with a translated message.
Answered == hpc = "done" /\ client.body.kind = "message"

\* choices[0].finish_reason and choices[0].message.tool_calls of the
\* completion the upstream sent, Absent when the completion has none.
UpstreamFinishReason ==
    IF upstream.data.choices = Absent THEN Absent
    ELSE upstream.data.choices.v[1].finish_reason

UpstreamToolCalls ==
    IF upstream.data.choices = Absent THEN Absent
    ELSE IF upstream.data.choices.v[1].message = Absent THEN Absent
    ELSE upstream.data.choices.v[1].message.v.tool_calls

\* C11: openai_to_anthropic returns stop_reason "tool_use" if and only if
\* choices[0].finish_reason equals "tool_calls" or
\* choices[0].message.tool_calls is a non-empty list; for every other
\* completion, whatever its finish_reason, it returns "end_turn".
C11_StopReasonToolUse ==
    Answered =>
        LET wants == \/ UpstreamFinishReason = Val("tool_calls")
                     \/ (UpstreamToolCalls.t = "val" /\ Len(UpstreamToolCalls.v) > 0)
        IN  /\ wants => client.body.message.stop_reason = "tool_use"
            /\ ~wants => client.body.message.stop_reason = "end_turn"

\* A completion with tool calls and finish_reason "stop" was answered with
\* stop_reason "tool_use".
C11_Witness ==
    /\ Answered
    /\ UpstreamFinishReason = Val("stop")
    /\ UpstreamToolCalls.t = "val" /\ Len(UpstreamToolCalls.v) > 0
    /\ client.body.message.stop_reason = "tool_use"

\* A completion with finish_reason "length" and an empty tool_calls list was
\* answered with stop_reason "end_turn".
C11_WitnessEndTurn ==
    /\ Answered
    /\ UpstreamFinishReason = Val("length")
    /\ UpstreamToolCalls = Val(<<>>)
    /\ client.body.message.stop_reason = "end_turn"

\* The upstream answered the request's one call with a status that is no
\* success.
UpstreamFailed == calls > 0 /\ ~IsSuccess(upstream.status)

\* C19: for a streaming request whose upstream response is no success, the
\* client receives exactly one frame of the form 'data: {"error": ...}' and
\* then the end of the stream; no message_start, content_block_*,
\* message_delta or message_stop event is emitted.
C19_OneErrorFrame ==
    (IsStreaming(options) /\ UpstreamFailed) =>
        /\ Len(client.frames) = 1
        /\ \E text \in {"", "rate limited", "{\"error\": \"bad\"}", "<U+FFFD>"} :
              client.frames[1] = "data: {\"error\": \"" \o text \o "\"}\n\n"
        /\ events = <<>>
        /\ hpc = "done"

\* An upstream error with a body in UTF-8 reached the client as one frame,
\* and the translator was not started.
C19_DecodableBody ==
    /\ IsStreaming(options) /\ UpstreamFailed
    /\ upstream.status = 429
    /\ client.frames = <<"data: {\"error\": \"rate limited\"}\n\n">>
    /\ events = <<>> /\ pc = "unborn"
    /\ hpc = "done"

\* C20: for a non-streaming request whose upstream response is no success,
\* the client receives the upstream's status code and the body
\* {error: {message: <upstream body>}}, and openai_to_anthropic is not applied.
C20_ErrorPassedOn ==
    (~IsStreaming(options) /\ UpstreamFailed) =>
        /\ hpc = "done"
        /\ client.status = upstream.status
        /\ client.body = [kind |-> "error", message |-> ResponseText(upstream.body)]
        /\ client.frames = <<>> /\ events = <<>>

\* An upstream 429 reached the client of a non-streaming request as a 429
\* with the upstream's text as message.
C20_Witness ==
    /\ ~IsStreaming(options) /\ UpstreamFailed
    /\ client.status = 429
    /\ client.body = [kind |-> "error", message |-> "rate limited"]

\* ---- credentials and the number of upstream calls --------------------------------

\* The token of an Authorization header of the Bearer scheme, None when the
\* header is missing or is not of the form 'Bearer <token>'.
BearerToken(a) ==
    CASE a = "Bearer B" -> "B"
      [] a = "Bearer " -> ""
      [] OTHER -> None

\* The first key available in the order configured credential, X-Api-Key,
\* Bearer token; None when none is available.
FirstAvailable(cr) ==
    IF Truthy(cr.env) THEN cr.env
    ELSE IF Truthy(cr.x_api_key) THEN cr.x_api_key
    ELSE IF Truthy(BearerToken(cr.authorization)) THEN BearerToken(cr.authorization)
    ELSE None

\* C21: a request for which no API key is available from the configured
\* credential, the X-Api-Key header or the Authorization Bearer header is
\* answered with status 401 and the 'API key required' body, and no upstream
\* call is made for it; when a key is available, the one used upstream is the
\* first available in the order configured credential, X-Api-Key, Bearer token.
C21_KeyRequiredOrFirstKey ==
    hpc # "idle" =>
        IF FirstAvailable(creds) = None
        THEN client = KeyRequired /\ calls = 0 /\ hpc = "done"
        ELSE creds.api_key = FirstAvailable(creds)

\* A request whose only credential is an Authorization header 'Bearer ' with
\* an empty token was answered 401 without an upstream call.
C21_NoKeyAnswered ==
    /\ creds.env = None /\ creds.x_api_key = "" /\ creds.authorization = "Bearer "
    /\ client = KeyRequired /\ calls = 0 /\ hpc = "done"

\* A request with an empty configured credential, an X-Api-Key and a Bearer
\* token was sent upstream with the X-Api-Key.
C21_SecondInOrder ==
    /\ creds.env = "" /\ creds.x_api_key = "X" /\ creds.authorization = "Bearer B"
    /\ creds.api_key = "X" /\ calls = 1

\* C22: nothing is retried: for every request, whatever the upstream outcome
\* (success, non-success status, stream ending early), at most one upstream
\* chat/completions call is issued.
C22_AtMostOneCall == calls <= 1

\* The call is issued only at the handler's one call site, and no step
\* returns there.
C22_NoWayBack == [][hpc # "call" => hpc' # "call" \/ hpc = "idle"]_vars

\* A streaming request whose upstream connection broke after the first
\* block was opened: the one call, and no second one.
C22_Witness ==
    /\ calls = 1
    /\ hpc = "raised" /\ pc = "raised" /\ Len(events) > 1

\* A non-streaming request whose upstream answered 429: the one call.
C22_WitnessError ==
    /\ calls = 1 /\ hpc = "done" /\ ~IsStreaming(options) /\ upstream.status = 429

\* A streaming request whose upstream closed right after the response
\* headers: the one call, and the epilogue alone after message_start.
C22_WitnessEarlyEnd ==
    /\ calls = 1 /\ hpc = "stream" /\ pc = "done" /\ nlines = 0

\* ---- unparseable tool arguments ---------------------------------------------------

\* The text is the JSON encoding of no value.
Unparseable(x) == \A j \in JsonValues : JsonDumps(j) # x

\* The completion the upstream sent, with every arguments string replaced by
\* a parseable one.
WithGoodArguments(data) ==
    [data EXCEPT !.choices.v[1].message.v.tool_calls.v =
        [n \in 1..Len(@) |-> [@[n] EXCEPT !.arguments = GoodArguments]]]

\* C26: in the non-streaming path, a tool call whose arguments string fails
\* to parse as JSON still produces a tool_use block, with input {}, and does
\* not raise; the stop_reason is computed exactly as for parseable arguments
\* (it is "tool_use").
C26_UnparseableArguments ==
    (hpc = "done" /\ ~IsStreaming(options) /\ calls = 1 /\ IsSuccess(upstream.status)
        /\ UpstreamToolCalls.t = "val") =>
        LET tcs == UpstreamToolCalls.v
            blocks == client.body.message.content
            before == Len(blocks) - Len(tcs)
        IN  \A n \in 1..Len(tcs) :
                (tcs[n].arguments.t = "val" /\ Unparseable(tcs[n].arguments.v)) =>
                    /\ client.body.kind = "message"
                    /\ before >= 0
                    /\ blocks[before + n].type = "tool_use"
                    /\ blocks[before + n].id = Get(tcs[n].id)
                    /\ blocks[before + n].input = JEmpty
                    /\ client.body.message.stop_reason = "tool_use"
                    /\ client.body.message.stop_reason =
                          openai_to_anthropic(WithGoodArguments(upstream.data),
                                              options.model).stop_reason

\* A completion with finish_reason "stop", a text and one tool call with the
\* arguments '{"q' was answered with a text block, a tool_use block with
\* input {} and stop_reason "tool_use".
C26_Witness ==
    /\ Answered
    /\ UpstreamFinishReason = Val("stop")
    /\ UpstreamToolCalls = Val(<<CompletionToolCall(Val("t1"), BadArguments)>>)
    /\ Len(client.body.message.content) = 2
    /\ client.body.message.content[2] =
          [type |-> "tool_use", id |-> Val("t1"), name |-> Val("fn"), input |-> JEmpty]
    /\ client.body.message.stop_reason = "tool_use"

(***************************************************************************)
(*              PART 6: two streaming requests in flight                   *)
(***************************************************************************)

\* Number of upstream lines each of the two streams is fed.
MaxPairLines == 2

\* The requests in flight.
Requests == {"r1", "r2"}

\* The upstream lines of the two streams: a content, a reasoning and a
\* tool-call delta.
PairLines ==
    { Line("object", Chunk(NoUsage, <<[delta |-> Delta(<<>>, None, "c1")]>>)),
      Line("object", Chunk(NoUsage, <<[delta |-> Delta(<<>>, "r1", None)]>>)),
      Line("object", Chunk(NoUsage, <<[delta |-> Delta(<<ToolEntry("t1", "{")>>, None, None)]>>)) }

\* One request in flight: the position of its handler and generator
\* ("idle", "start", "loop", "done"), the model its translated request
\* names, the locals of its generator, the upstream lines it has read, the
\* events of the line in hand that it has yet to yield, and the events it
\* has yielded.
Flight(p, m, f, ls, pend, evs) ==
    [pc |-> p, model |-> m, frame |-> f, lines |-> ls, pending |-> pend, events |-> evs]

\* The locals a generator resumes with, were content_block_index a module
\* global that every stream in flight advances.
LocalsSharedIndex(ss, r) ==
    [ss[r].frame EXCEPT !.content_block_index =
        CHOOSE n \in {ss[q].frame.content_block_index : q \in Requests} :
            \A q \in Requests : ss[q].frame.content_block_index <= n]

\* The locals a generator resumes with: those of its own frame
\* (stream.py:44-50 are locals of the generator function).
Locals(ss, r) == ss[r].frame

\* The application serves (the registry is populated); two requests have
\* arrived.
PairInit ==
    /\ streams = [r \in Requests |-> Flight("idle", NoneText, InitFrame, <<>>, <<>>, <<>>)]
    /\ cache = ServingRegistry /\ override = NoneText /\ asked = None /\ resolved = None
    /\ phase = "serving" /\ fetches = 1
    /\ body = None /\ options = None /\ result = <<>> /\ rpc = "idle" /\ tokens = Uncounted
    /\ pc = "start" /\ frame = InitFrame /\ events = <<>> /\ nlines = 0 /\ lastOpen = ""
    /\ hpc = None /\ creds = None /\ upstream = None /\ client = None /\ calls = 0
    /\ validation = None
    /\ fed = None

\* messages up to the return of the StreamingResponse (main.py:85-145): the
\* request is translated, which reads the registry.
PairReceive(r) ==
    /\ streams[r].pc = "idle"
    /\ streams' = [streams EXCEPT ![r].pc = "start",
                                  ![r].model = Resolver(cache, override, Sonnet35)]
    /\ UNCHANGED <<streamVars, requestVars, modelVars, serverVars, validation, fed>>

\* The generator's first resumption, up to its first yield (stream.py:28-42).
PairStart(r) ==
    /\ streams[r].pc = "start"
    /\ streams' = [streams EXCEPT ![r].pc = "loop",
                                  ![r].frame = InitFrame,
                                  ![r].events = Append(@, MessageStart)]
    /\ UNCHANGED <<streamVars, requestVars, modelVars, serverVars, validation, fed>>

\* The generator is resumed from `async for line in response.aiter_lines()`
\* with the next line of its own upstream (stream.py:57-173); the events of
\* the line are yielded one at a time by PairYield.
PairNextLine(r) ==
    /\ streams[r].pc = "loop"
    /\ streams[r].pending = <<>>
    /\ Len(streams[r].lines) < MaxPairLines
    /\ \E line \in PairLines :
          LET f == HandleChunk([Locals(streams, r) EXCEPT !.out = <<>>], line.chunk)
          IN  streams' = [streams EXCEPT ![r].lines = Append(@, line),
                                         ![r].pending = f.out,
                                         ![r].frame = [f EXCEPT !.out = <<>>]]
    /\ UNCHANGED <<streamVars, requestVars, modelVars, serverVars, validation, fed>>

\* One yield: the consumer takes the next event (a suspension point).
PairYield(r) ==
    /\ streams[r].pending # <<>>
    /\ streams' = [streams EXCEPT ![r].events = Append(@, Head(streams[r].pending)),
                                  ![r].pending = Tail(@)]
    /\ UNCHANGED <<streamVars, requestVars, modelVars, serverVars, validation, fed>>

\* The stream's upstream closed: the epilogue (stream.py:175-189), yielded
\* one event at a time.
PairEnd(r) ==
    /\ streams[r].pc = "loop"
    /\ streams[r].pending = <<>>
    /\ LET f == Locals(streams, r)
       IN  streams' = [streams EXCEPT
              ![r].pc = "done",
              ![r].pending =
                  (IF AnyOpen(f) THEN <<close_current_block(f)>> ELSE <<>>)
                  \o <<MessageDelta(StopReason(f), OutputTokens(f)), MessageStop>>]
    /\ UNCHANGED <<streamVars, requestVars, modelVars, serverVars, validation, fed>>

PairNext ==
    \E r \in Requests :
        \/ PairReceive(r)
        \/ PairStart(r)
        \/ PairNextLine(r)
        \/ PairYield(r)
        \/ PairEnd(r)

SpecPair == PairInit /\ [][PairNext]_vars

\* ---- properties of two streams in flight ------------------------------------------

\* What a generator run alone yields for the lines ls from the locals f, and
\* the locals it ends with.
RECURSIVE Alone(_, _)
Alone(f, ls) ==
    IF ls = <<>> THEN [frame |-> f, out |-> <<>>]
    ELSE LET g == HandleChunk([f EXCEPT !.out = <<>>], Head(ls).chunk)
             rest == Alone([g EXCEPT !.out = <<>>], Tail(ls))
         IN  [rest EXCEPT !.out = g.out \o @]

\* The events of a generator run alone on the lines ls, up to the await of
\* the next line, and to the end when the upstream closed after them.
AloneEvents(ls, closed) ==
    LET run == Alone(InitFrame, ls)
    IN  <<MessageStart>> \o run.out
        \o (IF closed
            THEN (IF AnyOpen(run.frame) THEN <<close_current_block(run.frame)>> ELSE <<>>)
                 \o <<MessageDelta(StopReason(run.frame), OutputTokens(run.frame)),
                      MessageStop>>
            ELSE <<>>)

\* Each stream has emitted, and holds to yield, exactly what it would if run
\* alone on the lines it has read.
AsIfAlone ==
    \A r \in Requests :
        streams[r].pc \in {"loop", "done"} =>
            streams[r].events \o streams[r].pending
                = AloneEvents(streams[r].lines, streams[r].pc = "done")

\* No step of handling a request writes the model registry.
RegistryUntouched == [][cache' = cache]_vars

\* C27: after startup, concurrent requests do not interfere: under every
\* interleaving of two in-flight streams at their suspension points (awaiting
\* an upstream line, yielding an event), each stream emits exactly the event
\* sequence it would emit if run alone on its own upstream lines, and no step
\* of handling a /v1/messages request writes the model registry.
C27_NoInterference == []AsIfAlone /\ RegistryUntouched

\* Both streams have ended after their steps alternated, and they opened
\* different blocks: r1 a tool_use block after a text block (index 1), r2 a
\* thinking block (index 0).
C27_Witness ==
    /\ \A r \in Requests : streams[r].pc = "done" /\ streams[r].pending = <<>>
    /\ Len(streams["r1"].lines) = 2 /\ Len(streams["r2"].lines) = 2
    /\ \E i \in 1..Len(streams["r1"].events) :
          /\ streams["r1"].events[i].type = "content_block_start"
          /\ streams["r1"].events[i].block = "tool_use"
          /\ streams["r1"].events[i].index = 1
    /\ \E i \in 1..Len(streams["r2"].events) :
          /\ streams["r2"].events[i].type = "content_block_start"
          /\ streams["r2"].events[i].block = "thinking"
          /\ streams["r2"].events[i].index = 0

\* One stream is suspended in a yield, with events of its line in hand,
\* while the other is between two lines with a block open.
C27_WitnessMidYield ==
    /\ streams["r1"].pc = "loop" /\ Len(streams["r1"].pending) = 2
    /\ streams["r2"].pc = "loop" /\ streams["r2"].pending = <<>>
    /\ AnyOpen(streams["r2"].frame)

\* =============================================================================
\* PART 7.  The loop of _validate_tool_calls, one iteration at a time
\*          (src/src/transform.py:10-59)
\* =============================================================================

\* The validator's call: the list it was given, the list it builds, and the
\* number of iterations of `for i, msg in enumerate(messages)` done (-1
\* before the call).
Validation(messages, validated, i) ==
    [messages |-> messages, validated |-> validated, i |-> i]

\* `current` at the end of the iteration for messages[i]: the copy of the
\* turn, its tool_calls reassigned or deleted (transform.py:18, 32-35).
Current(messages, i) ==
    LET msg == messages[i]
    IN  IF msg.role = "assistant" /\ msg.tool_calls # <<>>
        THEN [msg EXCEPT !.tool_calls = ValidCalls(msg.tool_calls, ImmediateToolIds(messages, i + 1))]
        ELSE msg

\* What the given list holds at index i after the iteration, were `current`
\* the turn itself and not a copy of it.
InputTurnAfterAliased(msg, current) == current

\* What the given list holds at index i after the iteration: `current` is
\* msg.copy() (transform.py:18), so the assignment and the del of lines
\* 32-35 change the copy, and nothing else writes to a turn or to the list.
InputTurnAfter(msg, current) == msg

\* anthropic_to_openai has been called with a request and has not yet read
\* its messages.
ValidateInit ==
    /\ body \in Bodies
    /\ validation = Validation(<<>>, <<>>, -1)
    /\ options = None /\ result = <<>> /\ rpc = "idle" /\ tokens = Uncounted
    /\ pc = "start" /\ frame = InitFrame /\ events = <<>> /\ nlines = 0 /\ lastOpen = ""
    /\ cache = EmptyRegistry /\ override = NoneText /\ asked = None /\ resolved = None
    /\ phase = None /\ fetches = 0
    /\ hpc = None /\ creds = None /\ upstream = None /\ client = None /\ calls = 0
    /\ streams = None
    /\ fed = None

\* The translator's loop over the turns of the request (transform.py:93-149)
\* and the call of the validator with the list it built (transform.py:153).
BuildMessages ==
    /\ validation.i = -1
    /\ validation' = Validation(openai_messages(body), <<>>, 0)
    /\ UNCHANGED <<streamVars, requestVars, modelVars, serverVars, streams, fed>>

\* One iteration of the loop (transform.py:17-57).
ValidateStep ==
    /\ validation.i >= 0
    /\ validation.i < Len(validation.messages)
    /\ LET i == validation.i + 1
           messages == validation.messages
       IN  validation' =
               Validation([messages EXCEPT ![i] = InputTurnAfter(messages[i], Current(messages, i))],
                          validation.validated \o ValidatedAt(messages, i),
                          i)
    /\ UNCHANGED <<streamVars, requestVars, modelVars, serverVars, streams, fed>>

ValidateNext == BuildMessages \/ ValidateStep

SpecValidate == ValidateInit /\ [][ValidateNext]_vars

\* ---- properties of the validator's loop ----------------------------------------

\* When the loop has ended, the list built is what the translator gets back
\* (transform.py:59).
ValidatedIsReturned ==
    validation.i = Len(validation.messages) =>
        validation.validated = _validate_tool_calls(validation.messages)

\* The step is an iteration of the validator's loop.
Iteration == validation.i >= 0 /\ validation'.i = validation.i + 1

\* The turn the iteration just taken looked at.
StepTurn == validation.messages[validation'.i]

\* What the iteration just taken appended to validated.
StepOut ==
    SubSeq(validation'.validated, Len(validation.validated) + 1, Len(validation'.validated))

\* The iteration appended at most one turn and touched nothing it had built.
StepAppends ==
    /\ validation'.i = validation.i + 1
    /\ Len(StepOut) <= 1
    /\ validation'.validated = validation.validated \o StepOut

\* The tool_call_ids of the tool turns in the contiguous run right after
\* turn a of M.
RunIds(M, a) == {M[t].tool_call_id : t \in {u \in 1..Len(M) : InToolRunAfter(M, a, u)}}

\* Text that is neither None nor empty.
NonEmptyContent(c) == c # NoneText /\ c # <<>>

\* What the claim says an iteration on an assistant turn with tool_calls does.
C28_Filtered ==
    LET M == validation.messages
        cur == StepTurn
        ids == RunIds(M, validation'.i)
        out == StepOut
        kept == IF out = <<>> THEN <<>> ELSE out[1].tool_calls
    IN  (cur.role = "assistant" /\ cur.tool_calls # <<>>) =>
            /\ StepAppends
            /\ kept = SelectSeq(cur.tool_calls, LAMBDA tc : tc.id \in ids)
            /\ \A n \in 1..Len(cur.tool_calls) :
                  (cur.tool_calls[n].id \in ids)
                      <=> (\E m \in 1..Len(kept) : kept[m] = cur.tool_calls[n])
            /\ (out = <<>>) <=> (~NonEmptyContent(cur.content)
                                 /\ \A n \in 1..Len(cur.tool_calls) : cur.tool_calls[n].id \notin ids)
            /\ out # <<>> => out[1].role = "assistant" /\ out[1].content = cur.content

\* C28: for an assistant turn that had non-empty tool_calls in the input, the
\* validator keeps a tool_calls entry if and only if its id is the
\* tool_call_id of a tool turn in the contiguous run of tool turns right
\* after that turn in the input; with no entry kept the turn has no
\* tool_calls, and the turn is dropped if and only if it then has neither
\* non-empty content nor tool_calls.
C28_AssistantCallsFiltered == [][Iteration => C28_Filtered]_vars

\* The loop has ended on a list where an assistant turn had two tool_calls and
\* only the first had its tool turn in the run behind it: the turn was kept
\* with that one entry.
C28_Witness ==
    /\ validation.i = Len(validation.messages)
    /\ \E a \in 1..Len(validation.messages) :
          LET cur == validation.messages[a]
          IN  /\ cur.role = "assistant" /\ Len(cur.tool_calls) = 2
              /\ RunIds(validation.messages, a) = {cur.tool_calls[1].id}
              /\ \E v \in 1..Len(validation.validated) :
                    /\ validation.validated[v].role = "assistant"
                    /\ validation.validated[v].tool_calls = <<cur.tool_calls[1]>>

\* The loop has ended on a list where an assistant turn without text had its
\* tool turn only behind a user turn: the assistant turn was dropped.
C28_WitnessDropped ==
    /\ validation.i = Len(validation.messages)
    /\ Len(validation.messages) >= 3
    /\ validation.messages[1].role = "assistant"
    /\ validation.messages[1].content = NoneText
    /\ validation.messages[1].tool_calls # <<>>
    /\ validation.messages[2].role = "user"
    /\ validation.messages[3].role = "tool"
    /\ validation.messages[3].tool_call_id = validation.messages[1].tool_calls[1].id
    /\ \A v \in 1..Len(validation.validated) : validation.validated[v].role = "user"

\* The loop has ended on a list where an assistant turn with text lost all its
\* tool_calls and was kept without the field.
C28_WitnessFieldRemoved ==
    /\ validation.i = Len(validation.messages)
    /\ \E a \in 1..Len(validation.messages) :
          /\ validation.messages[a].role = "assistant"
          /\ validation.messages[a].tool_calls # <<>>
          /\ NonEmptyContent(validation.messages[a].content)
          /\ RunIds(validation.messages, a) = {}
          /\ \E v \in 1..Len(validation.validated) :
                validation.validated[v] = [validation.messages[a] EXCEPT !.tool_calls = <<>>]

\* What the claim says an iteration on a tool turn does.
C29_Matched ==
    LET M == validation.messages
        cur == StepTurn
        k == PrevNonTool(M, validation'.i)
        matched == /\ k > 0
                   /\ M[k].role = "assistant"
                   /\ \E n \in 1..Len(M[k].tool_calls) : M[k].tool_calls[n].id = cur.tool_call_id
    IN  cur.role = "tool" =>
            /\ StepAppends
            /\ StepOut = IF matched THEN <<cur>> ELSE <<>>
            /\ (validation'.i = 1 \/ (k > 0 /\ M[k].role = "user")) => StepOut = <<>>

\* C29: the validator keeps a tool turn if and only if the first turn before
\* it in the input that is no tool turn exists, is an assistant turn and has
\* a tool_calls entry with the tool turn's tool_call_id; a tool turn at the
\* start of the list or after a user turn is dropped.
C29_ToolTurnKept == [][Iteration => C29_Matched]_vars

\* The loop has ended on a list of an assistant turn with two tool_calls and
\* the two tool turns behind it, in the other order: the second tool turn
\* was matched across the first, and both were kept.
C29_Witness ==
    /\ validation.i = Len(validation.messages)
    /\ Len(validation.messages) = 3
    /\ validation.messages[1].role = "assistant"
    /\ Len(validation.messages[1].tool_calls) = 2
    /\ validation.messages[2].role = "tool"
    /\ validation.messages[3].role = "tool"
    /\ validation.messages[2].tool_call_id = validation.messages[1].tool_calls[2].id
    /\ validation.messages[3].tool_call_id = validation.messages[1].tool_calls[1].id
    /\ validation.messages[2].tool_call_id # validation.messages[3].tool_call_id
    /\ validation.validated = validation.messages

\* The loop has ended on a list that starts with a tool turn and has a tool
\* turn right after a user turn: no tool turn was kept.
C29_WitnessDropped ==
    /\ validation.i = Len(validation.messages)
    /\ Len(validation.messages) = 3
    /\ validation.messages[1].role = "tool"
    /\ validation.messages[2].role = "user"
    /\ validation.messages[3].role = "tool"
    /\ validation.validated = <<validation.messages[2]>>

\* A tool turn whose id the assistant turn has, behind a tool turn whose id
\* it has not: the first was dropped, the second kept.
C29_WitnessSkipsDropped ==
    /\ validation.i = Len(validation.messages)
    /\ Len(validation.messages) = 3
    /\ validation.messages[1].role = "assistant"
    /\ validation.messages[2].role = "tool"
    /\ validation.messages[3].role = "tool"
    /\ Len(validation.validated) = 2
    /\ validation.validated[2] = validation.messages[3]

\* What the claim says of every iteration.
C30_Deletes ==
    LET cur == StepTurn
        out == StepOut
    IN  /\ StepAppends
        /\ validation'.messages = validation.messages
        /\ out # <<>> => [out[1] EXCEPT !.tool_calls = cur.tool_calls] = cur
        /\ (out # <<>> /\ cur.role # "assistant") => out[1] = cur
        /\ (cur.role # "tool" /\ ~(cur.role = "assistant" /\ cur.tool_calls # <<>>))
               => out = <<cur>>

\* C30: the validator only deletes: each iteration appends nothing or the
\* turn it looked at, so the output is a subsequence of the input in the
\* input's order; a turn that is neither a tool turn nor an assistant turn
\* with tool_calls is appended as it is, a kept assistant turn differs from
\* its input turn at most in tool_calls, and the given list and its turns
\* are as they were.
C30_OnlyDeletes == [][Iteration => C30_Deletes]_vars

\* The loop has ended having dropped a turn, shortened the tool_calls of an
\* assistant turn and kept a third turn as it was, and the given list still
\* holds the assistant turn with both its tool_calls.
C30_Witness ==
    /\ validation.i = Len(validation.messages)
    /\ Len(validation.messages) = 3
    /\ Len(validation.validated) = 2
    /\ validation.messages[1].role = "assistant"
    /\ Len(validation.messages[1].tool_calls) = 2
    /\ validation.validated[1].role = "assistant"
    /\ Len(validation.validated[1].tool_calls) = 1
    /\ \E v \in 1..2 : validation.validated[v].role \in {"user", "tool"}

\* =============================================================================
\* PART 8.  One stream with the lines it has read kept beside what it emitted
\*          (src/src/stream.py:59-189)
\* =============================================================================

\* Number of upstream lines the stream is fed.
MaxFed == 3

\* A line holding a chunk with one choice and its delta.
DeltaLine(u, d) == Line("object", Chunk(u, <<[delta |-> d]>>))

\* The upstream lines of this part: each kind of line the loop skips, chunks
\* without choices or with an empty delta, with and without usage, and deltas
\* of each field, alone and together.
FedLines ==
    {Line(k, Chunk(NoUsage, <<>>)) : k \in {"blank", "nodata", "done", "badjson", "scalar"}}
    \cup {Line("object", Chunk(u, <<>>)) :
            u \in {NoUsage, EmptyUsage, [completion_tokens |-> 7, other |-> TRUE],
                   [completion_tokens |-> -1, other |-> TRUE]}}
    \cup {DeltaLine(NoUsage, EmptyDelta),
          DeltaLine([completion_tokens |-> 5, other |-> FALSE], EmptyDelta),
          DeltaLine([completion_tokens |-> 9, other |-> TRUE], Delta(<<>>, None, "c1")),
          DeltaLine(NoUsage, Delta(<<>>, None, "c1")),
          DeltaLine(NoUsage, Delta(<<>>, None, "c2")),
          DeltaLine(NoUsage, Delta(<<>>, None, "")),
          DeltaLine(NoUsage, Delta(<<>>, "r1", None)),
          DeltaLine(NoUsage, Delta(<<>>, "r2", None)),
          DeltaLine(NoUsage, Delta(<<>>, "r1", "c1")),
          DeltaLine(NoUsage, Delta(<<ToolEntry("t1", "{")>>, "r1", "c1")),
          DeltaLine(NoUsage, Delta(<<ToolEntry("t1", "{")>>, None, None)),
          DeltaLine(NoUsage, Delta(<<ToolEntry("t1", None)>>, None, None)),
          DeltaLine(NoUsage, Delta(<<ToolEntry("t2", None)>>, None, None)),
          DeltaLine(NoUsage, Delta(<<ToolEntry(None, "{")>>, None, None)),
          DeltaLine(NoUsage, Delta(<<ToolEntry(None, "}")>>, None, None)),
          DeltaLine(NoUsage, Delta(<<ToolEntry("", "{")>>, None, None)),
          DeltaLine(NoUsage, Delta(<<ToolEntry(None, None)>>, None, None)),
          DeltaLine(NoUsage, Delta(<<ToolEntry("t1", "{"), ToolEntry("t2", "}")>>, None, None))}

\* Before the generator is first resumed; no line has been read.
FeedInit ==
    /\ pc = "start"
    /\ frame = InitFrame
    /\ events = <<>>
    /\ nlines = 0
    /\ lastOpen = ""
    /\ fed = <<>>
    /\ body = None /\ options = None /\ result = <<>> /\ rpc = "idle" /\ tokens = Uncounted
    /\ cache = None /\ override = None /\ asked = None /\ resolved = None
    /\ phase = None /\ fetches = 0
    /\ hpc = None /\ creds = None /\ upstream = None /\ client = None /\ calls = 0
    /\ streams = None
    /\ validation = None

\* The iteration, were the loop left at the '[DONE]' payload (`break` in
\* place of `continue` at stream.py:65): the epilogue follows at once.
FeedLineDoneEnds ==
    /\ pc = "loop"
    /\ Len(fed) < MaxFed
    /\ \E line \in FedLines :
         /\ fed' = Append(fed, line)
         /\ nlines' = nlines + 1
         /\ IF line.kind = "done"
            THEN /\ pc' = "done"
                 /\ lastOpen' = OpenKind(events)
                 /\ events' = events
                      \o (IF AnyOpen(frame) THEN <<close_current_block(frame)>> ELSE <<>>)
                      \o <<MessageDelta(StopReason(frame), OutputTokens(frame)), MessageStop>>
                 /\ frame' = frame
            ELSE /\ lastOpen' = lastOpen
                 /\ IF Skipped(line)
                    THEN UNCHANGED <<pc, frame, events>>
                    ELSE IF Raises(line)
                    THEN pc' = "raised" /\ UNCHANGED <<frame, events>>
                    ELSE LET f == HandleChunk([frame EXCEPT !.out = <<>>], line.chunk)
                         IN  /\ events' = events \o f.out
                             /\ frame' = [f EXCEPT !.out = <<>>]
                             /\ pc' = pc

\* One iteration of `async for line in response.aiter_lines()`
\* (stream.py:59-173), the line read being kept in fed.
FeedLine ==
    /\ pc = "loop"
    /\ Len(fed) < MaxFed
    /\ \E line \in FedLines :
         /\ fed' = Append(fed, line)
         /\ nlines' = nlines + 1
         /\ IF Skipped(line)
            THEN UNCHANGED <<pc, frame, events>>
            ELSE IF Raises(line)
            THEN pc' = "raised" /\ UNCHANGED <<frame, events>>
            ELSE LET f == HandleChunk([frame EXCEPT !.out = <<>>], line.chunk)
                 IN  /\ events' = events \o f.out
                     /\ frame' = [f EXCEPT !.out = <<>>]
                     /\ pc' = pc
    /\ UNCHANGED lastOpen

FeedNext ==
    \/ Start /\ UNCHANGED <<requestVars, modelVars, serverVars, streams, validation, fed>>
    \/ FeedLine /\ UNCHANGED <<requestVars, modelVars, serverVars, streams, validation>>
    \/ EndOfStream /\ UNCHANGED <<requestVars, modelVars, serverVars, streams, validation, fed>>

SpecFeed == FeedInit /\ [][FeedNext]_vars

\* ---- properties of one stream and its lines -------------------------------------

\* A line was read in the step.
LineRead == pc = "loop" /\ fed' # fed

\* The line the step read.
TheLine == fed'[Len(fed')]

\* What the step emitted.
Emitted == SubSeq(events', Len(events) + 1, Len(events'))

\* The step read a chunk whose first choice has a delta that is not empty.
DeltaRead ==
    /\ LineRead
    /\ TheLine.kind = "object"
    /\ TheLine.chunk.choices # <<>>
    /\ TheLine.chunk.choices[1].delta # EmptyDelta

TheDelta == TheLine.chunk.choices[1].delta

\* The block types of the events in evs.
BlocksOf(evs) == {evs[p].block : p \in {q \in 1..Len(evs) : IsStart(evs[q]) \/ IsDelta(evs[q])}}

\* The block the generator's flags say is open: "tool_use", "text",
\* "thinking", or "none".
Mode(f) ==
    IF f.is_tool_use THEN "tool_use"
    ELSE IF f.has_started_text_block THEN "text"
    ELSE IF f.has_started_thinking_block THEN "thinking"
    ELSE "none"

\* The step emitted events of the tool-call branch only.
OnlyToolEvents == BlocksOf(Emitted) \subseteq {"tool_use", "input_json_delta"}

\* The step emitted events of the reasoning branch only, its delta last.
OnlyThinkingEvents ==
    /\ BlocksOf(Emitted) \subseteq {"thinking", "thinking_delta"}
    /\ Emitted # <<>>
    /\ Emitted[Len(Emitted)] = BlockDelta(frame'.content_block_index, "thinking_delta", TheDelta.reasoning)

\* The step emitted events of the content branch only, its delta last.
OnlyTextEvents ==
    /\ BlocksOf(Emitted) \subseteq {"text", "text_delta"}
    /\ Emitted # <<>>
    /\ Emitted[Len(Emitted)] = BlockDelta(frame'.content_block_index, "text_delta", TheDelta.content)

\* The precedence of the branches, for a delta the step read.
C31_Precedence ==
    /\ TheDelta.tool_calls # <<>> => OnlyToolEvents
    /\ (TheDelta.tool_calls = <<>> /\ Truthy(TheDelta.reasoning)) => OnlyThinkingEvents
    /\ (TheDelta.tool_calls = <<>> /\ ~Truthy(TheDelta.reasoning) /\ Truthy(TheDelta.content))
           => OnlyTextEvents

\* C31 as stated: for every chunk with a non-empty delta exactly one of the
\* three branches fires, in the precedence order tool_calls, reasoning,
\* content; so a delta without tool_calls runs the reasoning or the content
\* branch, which emits a delta.
C31_ExactlyOneBranch ==
    [][DeltaRead =>
          /\ C31_Precedence
          /\ TheDelta.tool_calls = <<>> => (OnlyThinkingEvents \/ OnlyTextEvents)]_vars

\* C31, amended: for every chunk with a non-empty delta at most one branch
\* fires, the first in the order tool_calls, reasoning, content whose field
\* is non-empty: with tool_calls no thinking or text event is emitted, with
\* reasoning and content only thinking events are, and a delta none of whose
\* three fields is non-empty emits nothing and leaves the block state as it was.
C31_AtMostOneBranch ==
    [][DeltaRead =>
          /\ C31_Precedence
          /\ (TheDelta.tool_calls = <<>> /\ ~Truthy(TheDelta.reasoning) /\ ~Truthy(TheDelta.content))
                => (Emitted = <<>> /\ [frame' EXCEPT !.usage = frame.usage] = frame)]_vars

\* The stream has ended after a delta with tool_calls, reasoning and content
\* and a delta with reasoning and content: a tool_use block and a thinking
\* block were emitted, and no text block.
C31_Witness ==
    /\ pc = "done"
    /\ Len(fed) = 2
    /\ fed[1] = DeltaLine(NoUsage, Delta(<<ToolEntry("t1", "{")>>, "r1", "c1"))
    /\ fed[2] = DeltaLine(NoUsage, Delta(<<>>, "r1", "c1"))
    /\ BlocksOf(events) = {"tool_use", "input_json_delta", "thinking", "thinking_delta"}

\* The stream has ended after a delta whose only field is an empty content
\* between two content deltas: one text block with the two fragments.
C31_WitnessNoBranch ==
    /\ pc = "done"
    /\ Len(fed) = 3
    /\ fed[2] = DeltaLine(NoUsage, Delta(<<>>, None, ""))
    /\ Cardinality(Positions(events, "content_block_delta")) = 2
    /\ Cardinality(Positions(events, "content_block_start")) = 1

\* content_block_stop with index i, as a client reads it.
BlockStop(i) == _sse_event("content_block_stop", i, None, None, None, None, -1)

\* The index of the block a client sees open after evs.
OpenIndex(evs) == evs[LastStart(evs, Len(evs))].index

\* What the claim says a delta of kind K ("thinking" or "text") with fragment
\* x emits, given what was emitted before it.
Transition(K, x) ==
    LET open == OpenKind(events)
    IN  IF open = "none"
        THEN Emitted = <<BlockStart(frame.content_block_index, K, None),
                         BlockDelta(frame.content_block_index, DeltaTypeOf(K), x)>>
        ELSE IF open = K
        THEN Emitted = <<BlockDelta(OpenIndex(events), DeltaTypeOf(K), x)>>
        ELSE Emitted = <<BlockStop(OpenIndex(events)),
                         BlockStart(OpenIndex(events) + 1, K, None),
                         BlockDelta(OpenIndex(events) + 1, DeltaTypeOf(K), x)>>

\* The step read a delta that the reasoning branch takes.
ReasoningRead == DeltaRead /\ TheDelta.tool_calls = <<>> /\ Truthy(TheDelta.reasoning)

\* The step read a delta that the content branch takes.
ContentRead ==
    DeltaRead /\ TheDelta.tool_calls = <<>> /\ ~Truthy(TheDelta.reasoning) /\ Truthy(TheDelta.content)

\* C32: a reasoning (content) delta arriving while a block of another kind
\* is open at index i emits content_block_stop with index i, then
\* content_block_start of a thinking (text) block with index i+1, then the
\* delta with index i+1; arriving while no block is open it emits the start
\* and the delta at the current index; arriving while a block of its own
\* kind is open it emits the delta alone.
C32_Transitions ==
    [][/\ ReasoningRead => Transition("thinking", TheDelta.reasoning)
       /\ ContentRead => Transition("text", TheDelta.content)]_vars

\* The stream has ended after a reasoning delta, a second one and a content
\* delta: thinking opened at 0 with two deltas, was stopped, and text opened
\* at 1.
C32_Witness ==
    /\ pc = "done"
    /\ events = <<MessageStart,
                  BlockStart(0, "thinking", None),
                  BlockDelta(0, "thinking_delta", "r1"),
                  BlockDelta(0, "thinking_delta", "r2"),
                  BlockStop(0),
                  BlockStart(1, "text", None),
                  BlockDelta(1, "text_delta", "c1"),
                  BlockStop(1),
                  MessageDelta("end_turn", 0),
                  MessageStop>>

\* A reasoning delta arrived while a tool_use block was open: the tool_use
\* block was stopped and a thinking block opened at the next index.
C32_WitnessAfterTool ==
    /\ pc = "loop"
    /\ Len(events) >= 4
    /\ \E p \in 2..(Len(events) - 2) :
          /\ IsStart(events[p - 1]) /\ events[p - 1].block = "tool_use"
          /\ events[p] = BlockStop(events[p - 1].index)
          /\ events[p + 1] = BlockStart(events[p - 1].index + 1, "thinking", None)
          /\ events[p + 2] = BlockDelta(events[p - 1].index + 1, "thinking_delta", "r1")

\* An event without its index.
Unindexed(e) == [type |-> e.type, block |-> e.block, id |-> e.id, text |-> e.text]

UnindexedAll(evs) == [p \in 1..Len(evs) |-> Unindexed(evs[p])]

\* The id of the tool_use block a client sees open after evs (None if the
\* open block is no tool_use block, or no block is open).
OpenToolId(evs) ==
    IF OpenKind(evs) = "tool_use" THEN evs[LastStart(evs, Len(evs))].id ELSE None

\* What the claim says the entries of one delta.tool_calls emit, indices left
\* out, when a block of the given kind is open ("none" for no block) and,
\* if it is a tool_use block, it has the given id.
RECURSIVE EntriesEmit(_, _, _)
EntriesEmit(entries, kind, id) ==
    IF entries = <<>> THEN <<>>
    ELSE LET entry == Head(entries)
             opens == Truthy(entry.id) /\ (kind # "tool_use" \/ entry.id # id)
             kind1 == IF opens THEN "tool_use" ELSE kind
             id1 == IF opens THEN entry.id ELSE id
         IN  (IF opens /\ kind # "none" THEN <<Unindexed(BlockStop(0))>> ELSE <<>>)
             \o (IF opens THEN <<Unindexed(BlockStart(0, "tool_use", entry.id))>> ELSE <<>>)
             \o (IF Truthy(entry.arguments) /\ kind1 = "tool_use"
                 THEN <<Unindexed(BlockDelta(0, "input_json_delta", entry.arguments))>>
                 ELSE <<>>)
             \o EntriesEmit(Tail(entries), kind1, id1)

\* The step read a delta that the tool-call branch takes.
ToolCallsRead == DeltaRead /\ TheDelta.tool_calls # <<>>

\* What the claim says of a step of the tool-call branch.
C33_Entries ==
    ToolCallsRead =>
        /\ UnindexedAll(Emitted)
              = EntriesEmit(TheDelta.tool_calls, OpenKind(events), OpenToolId(events))
        /\ \A p \in 1..Len(Emitted) :
              /\ IsStop(Emitted[p]) => Emitted[p].index = OpenIndex(SubSeq(events', 1, Len(events) + p - 1))
              /\ IsDelta(Emitted[p]) => Emitted[p].index = OpenIndex(SubSeq(events', 1, Len(events) + p - 1))
        /\ Emitted = <<>> => [frame' EXCEPT !.usage = frame.usage] = frame

\* C33: a tool-call entry opens a tool_use block if and only if it has a
\* non-empty id that is not the id of the open tool_use block (or no
\* tool_use block is open), and then the open block, if any, is stopped
\* first; an entry without id, or with the id of the open tool_use block,
\* opens nothing; its arguments fragment is emitted as input_json_delta in
\* the open tool_use block if there is one, and is otherwise dropped with no
\* event and no change of state.
C33_ToolEntries == [][C33_Entries]_vars

\* The stream has ended after an entry with id t1 and a fragment, an entry
\* without id and a fragment, and an entry with id t2: one block for t1 with
\* both fragments, stopped when the block for t2 opened.
C33_Witness ==
    /\ pc = "done"
    /\ UnindexedAll(events)
          = UnindexedAll(<<MessageStart,
                           BlockStart(0, "tool_use", "t1"),
                           BlockDelta(0, "input_json_delta", "{"),
                           BlockDelta(0, "input_json_delta", "}"),
                           BlockStop(0),
                           BlockStart(0, "tool_use", "t2"),
                           BlockStop(0),
                           MessageDelta("tool_use", 0),
                           MessageStop>>)

\* A fragment without id arrived while a text block was open: nothing was
\* emitted for it and the text block went on.
C33_WitnessDropped ==
    /\ pc = "done"
    /\ Len(fed) = 3
    /\ fed[2] = DeltaLine(NoUsage, Delta(<<ToolEntry(None, "{")>>, None, None))
    /\ BlocksOf(events) = {"text", "text_delta"}
    /\ Cardinality(Positions(events, "content_block_delta")) = 2
    /\ Cardinality(Positions(events, "content_block_start")) = 1

\* An entry with the id of the open tool_use block and no fragment arrived:
\* nothing was emitted.
C33_WitnessSameId ==
    /\ pc = "done"
    /\ fed = <<DeltaLine(NoUsage, Delta(<<ToolEntry("t1", "{")>>, None, None)),
               DeltaLine(NoUsage, Delta(<<ToolEntry("t1", None)>>, None, None)),
               DeltaLine(NoUsage, Delta(<<ToolEntry("t1", "{")>>, None, None))>>
    /\ Cardinality(Positions(events, "content_block_start")) = 1
    /\ Cardinality(Positions(events, "content_block_delta")) = 2

\* The lines the claim lists: blank, not starting with 'data: ', '[DONE]',
\* not JSON, a chunk with empty choices, a chunk whose delta is absent or
\* empty.
Ignorable(line) ==
    \/ line.kind \in {"blank", "nodata", "done", "badjson"}
    \/ /\ line.kind = "object"
       /\ \/ line.chunk.choices = <<>>
          \/ line.chunk.choices[1].delta = EmptyDelta

\* A step that reads a line of the list emits nothing, leaves the locals
\* other than usage as they were, changes usage only to the usage of a
\* chunk, and stays in the loop.
C34_NoEffect ==
    (LineRead /\ Ignorable(TheLine)) =>
        /\ Emitted = <<>>
        /\ [frame' EXCEPT !.usage = frame.usage] = frame
        /\ frame'.usage # frame.usage
               => (TheLine.kind = "object" /\ frame'.usage = TheLine.chunk.usage)
        /\ pc' = "loop"

\* While the stream is read, what was emitted is what the generator emits
\* for the lines read without the lines of the list.
C34_AsIfAbsent ==
    pc = "loop" =>
        events = AloneEvents(SelectSeq(fed, LAMBDA line : ~Ignorable(line)), FALSE)

\* C34: a blank line, a line not beginning with 'data: ', a '[DONE]'
\* payload, a payload that is not JSON, a chunk with empty choices and a
\* chunk with an absent or empty delta emit no event and leave the block
\* mode, the index and the tool buffers unchanged (a chunk's usage may
\* replace usage); none ends the processing: the deltas that arrive after
\* them, also after '[DONE]', are translated as if they had not been there.
C34_IgnoredLines == [][C34_NoEffect]_vars /\ []C34_AsIfAbsent

\* The stream has ended after a content delta, '[DONE]' and another content
\* delta: one text block with both fragments.
C34_Witness ==
    /\ pc = "done"
    /\ Len(fed) = 3
    /\ fed[2].kind = "done"
    /\ events = <<MessageStart,
                  BlockStart(0, "text", None),
                  BlockDelta(0, "text_delta", "c1"),
                  BlockDelta(0, "text_delta", "c2"),
                  BlockStop(0),
                  MessageDelta("end_turn", 0),
                  MessageStop>>

\* A chunk with usage and an empty delta arrived while a tool_use block was
\* open: the usage was taken and the block went on.
C34_WitnessUsage ==
    /\ pc = "loop"
    /\ Len(fed) = 3
    /\ fed[2] = DeltaLine([completion_tokens |-> 5, other |-> FALSE], EmptyDelta)
    /\ frame.usage.completion_tokens = 5
    /\ Cardinality(Positions(events, "content_block_start")) = 1
    /\ Cardinality(Positions(events, "content_block_delta")) = 2
    /\ OpenKind(events) = "tool_use"

\* The output_tokens of the message_delta in evs.
ReportedTokens(evs) ==
    evs[CHOOSE p \in Positions(evs, "message_delta") : TRUE].output_tokens

\* completion_tokens of the last line of ls that satisfies Carries, 0 if
\* there is none or it has no completion_tokens.
LastCompletionTokens(ls, Carries(_)) ==
    LET S == {p \in 1..Len(ls) : ls[p].kind = "object" /\ Carries(ls[p].chunk.usage)}
    IN  IF S = {} THEN 0
        ELSE LET u == ls[CHOOSE p \in S : \A q \in S : q <= p].chunk.usage
             IN  IF u.completion_tokens = -1 THEN 0 ELSE u.completion_tokens

\* The chunk has a usage object.
HasUsageObject(u) == u # NoUsage

\* C35 as stated: the output_tokens of message_delta is the
\* completion_tokens of the last chunk that carried a usage object, with or
\* without choices, and 0 when no chunk carried one or the last one has no
\* completion_tokens.
C35_LastUsageObject ==
    pc = "done" => ReportedTokens(events) = LastCompletionTokens(fed, HasUsageObject)

\* What holds: the output_tokens is that of the last chunk whose usage
\* object is not empty.
C35_LastNonEmptyUsage ==
    pc = "done" => ReportedTokens(events) = LastCompletionTokens(fed, UsageTruthy)

\* The stream has ended after a chunk without choices with completion_tokens
\* 7, a content chunk with completion_tokens 9 and a chunk whose usage has
\* no completion_tokens: 0 is reported.
C35_Witness ==
    /\ pc = "done"
    /\ Len(fed) = 3
    /\ fed[1] = Line("object", Chunk([completion_tokens |-> 7, other |-> TRUE], <<>>))
    /\ fed[2] = DeltaLine([completion_tokens |-> 9, other |-> TRUE], Delta(<<>>, None, "c1"))
    /\ fed[3] = Line("object", Chunk([completion_tokens |-> -1, other |-> TRUE], <<>>))
    /\ ReportedTokens(events) = 0

\* The usage of a chunk without choices was the last: its 7 is reported.
C35_WitnessNoChoices ==
    /\ pc = "done"
    /\ Len(fed) = 2
    /\ fed[1] = DeltaLine([completion_tokens |-> 9, other |-> TRUE], Delta(<<>>, None, "c1"))
    /\ fed[2] = Line("object", Chunk([completion_tokens |-> 7, other |-> TRUE], <<>>))
    /\ ReportedTokens(events) = 7

\* No chunk carried usage: 0 is reported.
C35_WitnessNone ==
    /\ pc = "done"
    /\ Len(fed) = 2
    /\ \A p \in 1..2 : fed[p].kind = "object" /\ fed[p].chunk.usage = NoUsage
    /\ ReportedTokens(events) = 0

\* A fragment and the delta type it is to be carried in.
Fragment(type, x) == [type |-> type, text |-> x]

\* The fragments of the entries of one delta.tool_calls that arrive with a
\* tool block open, and whether a tool block is open after them.
RECURSIVE EntryFragments(_, _)
EntryFragments(entries, toolOpen) ==
    IF entries = <<>> THEN [frags |-> <<>>, toolOpen |-> toolOpen]
    ELSE LET entry == Head(entries)
             open1 == toolOpen \/ Truthy(entry.id)
             rest == EntryFragments(Tail(entries), open1)
         IN  [rest EXCEPT !.frags =
                 (IF Truthy(entry.arguments) /\ open1
                  THEN <<Fragment("input_json_delta", entry.arguments)>> ELSE <<>>) \o @]

\* The non-empty fragments the dispatch selects from the lines ls, in the
\* order of arrival.
RECURSIVE Fragments(_, _)
Fragments(ls, toolOpen) ==
    IF ls = <<>> THEN <<>>
    ELSE IF Ignorable(Head(ls)) \/ Head(ls).kind # "object" THEN Fragments(Tail(ls), toolOpen)
    ELSE LET d == Head(ls).chunk.choices[1].delta
         IN  IF d.tool_calls # <<>>
             THEN LET r == EntryFragments(d.tool_calls, toolOpen)
                  IN  r.frags \o Fragments(Tail(ls), r.toolOpen)
             ELSE IF Truthy(d.reasoning)
             THEN <<Fragment("thinking_delta", d.reasoning)>> \o Fragments(Tail(ls), FALSE)
             ELSE IF Truthy(d.content)
             THEN <<Fragment("text_delta", d.content)>> \o Fragments(Tail(ls), FALSE)
             ELSE Fragments(Tail(ls), toolOpen)

\* The fragments the content_block_delta events of evs carry, in order.
RECURSIVE DeltasOf(_)
DeltasOf(evs) ==
    IF evs = <<>> THEN <<>>
    ELSE (IF IsDelta(Head(evs)) THEN <<Fragment(Head(evs).block, Head(evs).text)>> ELSE <<>>)
         \o DeltasOf(Tail(evs))

\* C36: within one stream the content_block_delta events carry, one each and
\* unchanged, the non-empty fragments the dispatch selected (content,
\* reasoning, tool arguments with a tool block open), in the order the
\* fragments arrived: none is duplicated, merged, split or reordered.
C36_FragmentsInOrder == DeltasOf(events) = Fragments(fed, FALSE)

\* The stream has ended after a reasoning fragment, a delta with two tool
\* entries and a fragment each, and a content fragment: four deltas in that
\* order.
C36_Witness ==
    /\ pc = "done"
    /\ DeltasOf(events) = <<Fragment("thinking_delta", "r2"),
                            Fragment("input_json_delta", "{"),
                            Fragment("input_json_delta", "}"),
                            Fragment("text_delta", "c2")>>

\* The same fragment arrived twice and was emitted twice.
C36_WitnessRepeated ==
    /\ pc = "done"
    /\ DeltasOf(events) = <<Fragment("text_delta", "c1"),
                            Fragment("text_delta", "c1"),
                            Fragment("text_delta", "c1")>>

\* C38: within one stream the content_block_start events carry strictly
\* increasing indices, so no two blocks share an index, in whatever order
\* tool-call, reasoning and content deltas arrive.
C38_StartIndicesIncrease ==
    \A p, q \in Positions(events, "content_block_start") :
        p < q => events[p].index < events[q].index

\* Three blocks of three kinds were opened, none of them twice.
C38_Witness ==
    /\ pc = "done"
    /\ Cardinality(Positions(events, "content_block_start")) = 3
    /\ {events[p].block : p \in Positions(events, "content_block_start")}
          = {"thinking", "tool_use", "text"}

\* A text block was opened, left for a thinking block and opened again: the
\* second text block has a later index.
C38_WitnessReopened ==
    /\ pc = "done"
    /\ \E p, q, r \in Positions(events, "content_block_start") :
          /\ p < q /\ q < r
          /\ events[p].block = "text" /\ events[q].block = "thinking" /\ events[r].block = "text"
          /\ events[r].index = events[p].index + 2

\* ---- the registry before and without a successful fetch ----------------------------

\* The ids a lookup is made for: those of the catalogue and one of no list.
LookedUp == {m.id : m \in Catalogue} \cup {UnknownModel}

\* The three views of the registry c: the known ids, the supported
\* parameters of each id looked up, the alias map.
Views(c) ==
    [ids |-> get_model_ids(c),
     supported_params |-> [id \in LookedUp |-> get_supported_params(c, id)],
     aliases |-> get_claude_aliases(c)]

\* The views of a registry that holds nothing.
Unpopulated ==
    [ids |-> {},
     supported_params |-> [id \in LookedUp |-> Nothing],
     aliases |-> <<>>]

\* No fetch has got its response: none was made, or the one made failed.
NoFetchSucceeded == fetches = 0 \/ phase = "failed"

\* The step is a fetch that fails.
FetchFails == phase # "failed" /\ phase' = "failed"

\* C37: until a fetch has succeeded the registry is unpopulated: no id is
\* known, the supported-parameters lookup gives None for every id and the
\* alias map is empty; and a fetch that fails (a status that is no success,
\* or a transport error) leaves the three views as they were before it.
C37_UnpopulatedUntilFetched ==
    /\ [](NoFetchSucceeded => Views(cache) = Unpopulated)
    /\ [][FetchFails => Views(cache') = Views(cache)]_vars

\* The startup fetch was made and failed: the registry is as it was.
C37_Witness ==
    /\ fetches = 1
    /\ phase = "failed"
    /\ Views(cache) = Unpopulated

\* A fetch succeeded and the views are populated: ids known, parameters of a
\* listed model, an alias.
C37_WitnessPopulated ==
    /\ phase = "serving"
    /\ get_model_ids(cache) # {}
    /\ \E id \in LookedUp : get_supported_params(cache, id).some
    /\ get_claude_aliases(cache) # <<>>

\* ---- the validator applied to its own output ------------------------------------

\* The loop has ended.
Validated == validation.i = Len(validation.messages)

\* C39: the validator is idempotent: applied to the list it returned, it
\* returns that list unchanged.
C39_Idempotent ==
    Validated => _validate_tool_calls(validation.validated) = validation.validated

\* The validator has dropped a turn and shortened the tool_calls of another,
\* and what is left still holds an assistant turn with tool_calls and its
\* tool turn, which a second pass has to look at.
C39_Witness ==
    /\ Validated
    /\ Len(validation.validated) < Len(validation.messages)
    /\ \E v \in 1..(Len(validation.validated) - 1) :
          /\ validation.validated[v].role = "assistant"
          /\ Len(validation.validated[v].tool_calls) = 1
          /\ validation.validated[v + 1].role = "tool"
          /\ \E a \in 1..Len(validation.messages) :
                /\ validation.messages[a].role = "assistant"
                /\ Len(validation.messages[a].tool_calls) = 2

\* An assistant turn without text lost its tool_calls and was dropped, and
\* with it the tool turn behind the user turn: only the user turn is left.
C39_WitnessAllOrphans ==
    /\ Validated
    /\ Len(validation.messages) = 3
    /\ validation.messages[1].role = "assistant"
    /\ validation.messages[3].role = "tool"
    /\ validation.validated = <<validation.messages[2]>>

\* ---- the turns of a user turn with text and tool results -------------------------

\* The parts of the given type, in part order.
PartsOf(parts, ty) == SelectSeq(parts, LAMBDA part : part.type = ty)

\* The turns the translator made of turn k of the request, as they stand in
\* the list given to the validator.
TurnsOf(k) ==
    LET before == Len(openai_messages(SubSeq(body, 1, k - 1)))
        upto == Len(openai_messages(SubSeq(body, 1, k)))
    IN  SubSeq(validation.messages, before + 1, upto)

\* Turn k of the request is a user turn whose parts list has text parts and
\* tool_result parts.
TextAndResults(k) ==
    /\ body[k].role = "user"
    /\ body[k].kind = "list"
    /\ PartsOf(body[k].parts, "text") # <<>>
    /\ PartsOf(body[k].parts, "tool_result") # <<>>

\* The text parts joined with "\n" and stripped.
JoinedText(parts) ==
    LET texts == PartsOf(parts, "text")
    IN  Strip(JoinLines([n \in 1..Len(texts) |-> StrOrDumps(texts[n].text)]))

\* C40: for a user turn whose parts list has text parts and tool_result
\* parts, the translator emits, before validation, the one user turn with
\* the joined text first (the turn is omitted when the joined text is
\* empty) and then one tool turn per tool_result part, in part order,
\* wherever the text parts stand among the tool_result parts.
C40_TextBeforeToolTurns ==
    \A k \in 1..Len(body) :
        (validation.i >= 0 /\ TextAndResults(k)) =>
            LET out == TurnsOf(k)
                results == PartsOf(body[k].parts, "tool_result")
                text == JoinedText(body[k].parts)
                n == IF text = <<>> THEN 0 ELSE 1
            IN  /\ Len(out) = n + Len(results)
                /\ n = 1 => (out[1].role = "user" /\ out[1].content = text)
                /\ \A j \in 1..Len(results) :
                      /\ out[n + j].role = "tool"
                      /\ out[n + j].tool_call_id = results[j].id
                      /\ out[n + j].content = StrOrDumps(results[j].content)

\* A user turn with a tool_result part before its text part was translated:
\* the user turn is first, the tool turn second.
C40_Witness ==
    /\ validation.i >= 0
    /\ Len(body) = 1
    /\ body[1] = ListTurn("user", <<ToolResultPart("A", Sunny), TextPart(JStr(Hi))>>)
    /\ Len(validation.messages) = 2
    /\ validation.messages[1].role = "user"
    /\ validation.messages[2].role = "tool"

\* A user turn whose only text is a blank: no user turn, the tool turn alone.
C40_WitnessBlankText ==
    /\ validation.i >= 0
    /\ Len(body) = 1
    /\ TextAndResults(1)
    /\ Len(validation.messages) = 1
    /\ validation.messages[1].role = "tool"
====
